---- MODULE Spec2Model ----
(***************************************************************************)
(* Volume-Profile backend: the indicator calculation engine                *)
(* (services/indicator_parser.py, services/indicators/*.py) and the        *)
(* timeframe aggregator (services/timeframe_service.py).                   *)
(*                                                                         *)
(* Numbers.  A float cell is modelled as an exact rational <<n, d>> in     *)
(* lowest terms with d > 0; the not-a-number value is <<0, 0>>.  A date    *)
(* is the triple <<year, month, day>>.  A DataFrame is a record            *)
(*   [cols |-> sequence of column names, data |-> [name -> column]]        *)
(* where every column is a sequence with one cell per row.                 *)
(***************************************************************************)
EXTENDS Integers, Sequences, FiniteSets, TLC

VARIABLES
    df,        \* calculate: the caller's DataFrame (argument df)
    requests,  \* calculate: the request list (argument requests)
    result,    \* calculate: the local DataFrame `result`
    idx,       \* calculate: number of requests the for-loop has consumed
    pc,        \* calculate: "loop", "done" (returned) or "error" (raised)
    bars,      \* resample_data: the caller's daily DataFrame (argument df)
    interval,  \* resample_data: the interval token
    out,       \* resample_data: the returned DataFrame
    apc,       \* resample_data: "ready", "done" (returned) or "error" (raised)
    indicators_str,   \* parse: the argument indicators_str
    indicator_parts,  \* parse: the local list indicator_parts
    part_idx,         \* parse: number of parts the for-loop has consumed
    parsed,           \* parse: the local list `requests`
    outcome,          \* parse: what the caller receives (a list or an exception)
    ppc,       \* parse: "start", "loop", "done" (returned) or "error" (raised)
    math_df,   \* indicators/*.py: the argument df of one calculate_* call
    math_call, \* indicators/*.py: the function called and its periods
    math_ret,  \* indicators/*.py: the returned DataFrame
    math_pc,   \* indicators/*.py: "ready", "done" (returned) or "error" (raised)
    handler,   \* routes/stock.py: the route function serving the request
    stored,    \* routes/stock.py: what data_service.load_stock_data gives
    query,     \* routes/stock.py: the query parameters of the request
    response,  \* routes/stock.py: the status and payload the client receives
    rpc        \* routes/stock.py: "ready" or "done" (responded)

vars == <<df, requests, result, idx, pc, bars, interval, out, apc,
          indicators_str, indicator_parts, part_idx, parsed, outcome, ppc,
          math_df, math_call, math_ret, math_pc,
          handler, stored, query, response, rpc>>
parseVars == <<indicators_str, indicator_parts, part_idx, parsed, outcome, ppc>>
calcVars == <<df, requests, result, idx, pc>>
aggVars == <<bars, interval, out, apc>>
mathVars == <<math_df, math_call, math_ret, math_pc>>
routeVars == <<handler, stored, query, response, rpc>>

(***************************************************************************)
(* Bounds of the model.                                                    *)
(***************************************************************************)
MaxBars == 3    \* longest bar series given to calculate
MaxReqs == 2    \* longest request list given to calculate
MaxDays == 3    \* longest daily series given to resample_data
MaxClauses == 2 \* most clause texts joined into one spec string

(***************************************************************************)
(* Exact rational arithmetic for float cells.                              *)
(***************************************************************************)
NaN == <<0, 0>>
IsNaN(x) == x = NaN

Abs(n) == IF n < 0 THEN -n ELSE n

RECURSIVE Gcd(_, _)
Gcd(a, b) == IF b = 0 THEN a ELSE Gcd(b, a % b)

Norm(n, d) ==
    LET g == Gcd(Abs(n), Abs(d))
        s == IF d < 0 THEN -1 ELSE 1
    IN  <<(s * n) \div g, (s * d) \div g>>

R(k) == <<k, 1>>
Zero == R(0)
RAdd(x, y) == Norm(x[1] * y[2] + y[1] * x[2], x[2] * y[2])
RSub(x, y) == Norm(x[1] * y[2] - y[1] * x[2], x[2] * y[2])
RMul(x, y) == Norm(x[1] * y[1], x[2] * y[2])
RDiv(x, y) == Norm(x[1] * y[2], x[2] * y[1])
RLess(x, y) == x[1] * y[2] < y[1] * x[2]
RMax(x, y) == IF RLess(x, y) THEN y ELSE x
RMin(x, y) == IF RLess(y, x) THEN y ELSE x

Range(s) == {s[i] : i \in DOMAIN s}

RECURSIVE RSum(_)
RSum(s) == IF s = <<>> THEN Zero ELSE RAdd(Head(s), RSum(Tail(s)))

\* s[a..b] as a sequence (1-based, inclusive)
Slice(s, a, b) == [i \in 1..(b - a + 1) |-> s[a + i - 1]]

(***************************************************************************)
(* DataFrame operations used by the code.                                  *)
(***************************************************************************)
EmptyFrame == [cols |-> <<>>, data |-> [c \in {} |-> <<>>]]

Columns(f) == Range(f.cols)

NRows(f) == IF f.cols = <<>> THEN 0 ELSE Len(f.data[f.cols[1]])

\* variant: an existing column is kept, not overwritten
SetCol_KeepExisting(f, c, vals) ==
    IF c \in Columns(f) THEN f
    ELSE [cols |-> Append(f.cols, c),
          data |-> [k \in DOMAIN f.data \cup {c} |-> IF k = c THEN vals ELSE f.data[k]]]

\* frame[c] = vals : overwrite in place when c exists, else append on the right
SetCol(f, c, vals) ==
    [cols |-> IF c \in Columns(f) THEN f.cols ELSE Append(f.cols, c),
     data |-> [k \in DOMAIN f.data \cup {c} |-> IF k = c THEN vals ELSE f.data[k]]]

\* frame.drop(columns=[c])
DropCol(f, c) ==
    [cols |-> SelectSeq(f.cols, LAMBDA k : k # c),
     data |-> [k \in DOMAIN f.data \ {c} |-> f.data[k]]]

\* frame.fillna(0): every not-a-number cell of every column becomes 0
FillNa(f) ==
    [cols |-> f.cols,
     data |-> [k \in DOMAIN f.data |->
                 [i \in DOMAIN f.data[k] |->
                     IF IsNaN(f.data[k][i]) THEN Zero ELSE f.data[k][i]]]]

(***************************************************************************)
(* TA-Lib functions called by services/indicators/*.py.  Each returns a    *)
(* column as long as its input whose leading lookback cells are NaN; an    *)
(* input no longer than the lookback gives an all-NaN column.  A period    *)
(* outside the function's accepted range makes the call raise.             *)
(***************************************************************************)
Mean(s) == RDiv(RSum(s), R(Len(s)))

\* talib.SMA / talib.EMA / talib.WMA / talib.RSI / talib.BBANDS accept 2..100000
TalibPeriodOk(p) == p >= 2 /\ p <= 100000
\* talib.STOCH periods and the talib.MACD signal period accept 1..100000
TalibPeriod1Ok(p) == p >= 1 /\ p <= 100000

\* mean of the trailing p cells at position i, for i >= p
SmaAt(real, p, i) == Mean(Slice(real, i - p + 1, i))

TalibSMA(real, p) ==
    [i \in DOMAIN real |-> IF i < p THEN NaN ELSE SmaAt(real, p, i)]

\* smoothing factor 2 / (p + 1)
PerToK(p) == RDiv(R(2), R(p + 1))

\* EMA of period p seeded at position start with the mean of the p cells
\* ending there, then prev + (x - prev) * k
RECURSIVE IntEmaAt(_, _, _, _)
IntEmaAt(real, p, start, i) ==
    IF i = start
    THEN SmaAt(real, p, start)
    ELSE LET prev == IntEmaAt(real, p, start, i - 1)
         IN  RAdd(RMul(RSub(real[i], prev), PerToK(p)), prev)

TalibEMA(real, p) ==
    [i \in DOMAIN real |-> IF i < p THEN NaN ELSE IntEmaAt(real, p, p, i)]

\* weights 1..p, the newest cell weighted p, divided by p(p+1)/2
WmaAt(real, p, i) ==
    RDiv(RSum([j \in 1..p |-> RMul(R(j), real[i - p + j])]),
         R((p * (p + 1)) \div 2))

TalibWMA(real, p) ==
    [i \in DOMAIN real |-> IF i < p THEN NaN ELSE WmaAt(real, p, i)]

\* Wilder RSI: <<average gain, average loss>> at position i >= p + 1
Gain(real, i) == RMax(RSub(real[i], real[i - 1]), Zero)
Loss(real, i) == RMax(RSub(real[i - 1], real[i]), Zero)

RECURSIVE RsiAvg(_, _, _)
RsiAvg(real, p, i) ==
    IF i = p + 1
    THEN <<Mean([j \in 1..p |-> Gain(real, j + 1)]),
           Mean([j \in 1..p |-> Loss(real, j + 1)])>>
    ELSE LET prev == RsiAvg(real, p, i - 1)
         IN  <<RDiv(RAdd(RMul(prev[1], R(p - 1)), Gain(real, i)), R(p)),
               RDiv(RAdd(RMul(prev[2], R(p - 1)), Loss(real, i)), R(p))>>

RsiAt(real, p, i) ==
    LET a == RsiAvg(real, p, i)
        t == RAdd(a[1], a[2])
    IN  IF t = Zero THEN Zero ELSE RMul(R(100), RDiv(a[1], t))

TalibRSI(real, p) ==
    [i \in DOMAIN real |-> IF i <= p THEN NaN ELSE RsiAt(real, p, i)]

\* talib.MACD: the periods are swapped when slow < fast; both EMAs are
\* seeded at position slow; the signal line is the EMA of the MACD line
\* seeded at position slow + signal - 1, where all three outputs start.
MacdSlow(fast, slow) == IF slow < fast THEN fast ELSE slow
MacdFast(fast, slow) == IF slow < fast THEN slow ELSE fast

MacdLineAt(real, fast, slow, i) ==
    LET s == MacdSlow(fast, slow)
        f == MacdFast(fast, slow)
    IN  RSub(IntEmaAt(real, f, s, i), IntEmaAt(real, s, s, i))

MacdLine(real, fast, slow) ==
    [i \in DOMAIN real |->
        IF i < MacdSlow(fast, slow) THEN Zero ELSE MacdLineAt(real, fast, slow, i)]

MacdStart(fast, slow, signal) == MacdSlow(fast, slow) + signal - 1

TalibMACD(real, fast, slow, signal) ==
    LET st   == MacdStart(fast, slow, signal)
        line == MacdLine(real, fast, slow)
        macd == [i \in DOMAIN real |-> IF i < st THEN NaN ELSE line[i]]
        sig  == [i \in DOMAIN real |->
                    IF i < st THEN NaN ELSE IntEmaAt(line, signal, st, i)]
        hist == [i \in DOMAIN real |->
                    IF i < st THEN NaN ELSE RSub(macd[i], sig[i])]
    IN  <<macd, sig, hist>>

\* talib.STOCH with SMA smoothing: raw %K over fastk bars (0 when the
\* window's high equals its low), slow %K = SMA(raw, slowk), slow %D =
\* SMA(slow %K, slowd); both outputs start at the same position.
RECURSIVE RMaxOf(_)
RMaxOf(s) == IF Len(s) = 1 THEN s[1] ELSE RMax(Head(s), RMaxOf(Tail(s)))

RECURSIVE RMinOf(_)
RMinOf(s) == IF Len(s) = 1 THEN s[1] ELSE RMin(Head(s), RMinOf(Tail(s)))

RawK(high, low, close, fastk, i) ==
    LET hh == RMaxOf(Slice(high, i - fastk + 1, i))
        ll == RMinOf(Slice(low, i - fastk + 1, i))
        d  == RDiv(RSub(hh, ll), R(100))
    IN  IF d = Zero THEN Zero ELSE RDiv(RSub(close[i], ll), d)

StochStart(fastk, slowk, slowd) == fastk + slowk + slowd - 2

TalibSTOCH(high, low, close, fastk, slowk, slowd) ==
    LET n     == Len(close)
        st    == StochStart(fastk, slowk, slowd)
        raw   == [i \in 1..n |-> IF i < fastk THEN Zero
                                 ELSE RawK(high, low, close, fastk, i)]
        slowK == [i \in 1..n |-> IF i < fastk + slowk - 1 THEN Zero
                                 ELSE SmaAt(raw, slowk, i)]
        k     == [i \in 1..n |-> IF i < st THEN NaN ELSE slowK[i]]
        d     == [i \in 1..n |-> IF i < st THEN NaN ELSE SmaAt(slowK, slowd, i)]
    IN  <<k, d>>

\* numpy arithmetic on columns: NaN in, NaN out
NpJ(k, d) ==
    [i \in DOMAIN k |->
        IF IsNaN(k[i]) \/ IsNaN(d[i]) THEN NaN
        ELSE RSub(RMul(R(3), k[i]), RMul(R(2), d[i]))]

\* talib.BBANDS with matype 0: middle = SMA, the bands lie nbdev population
\* standard deviations away.  m + c * sqrt(v) is a rational when c = 0 or v
\* is the square of a rational, and is otherwise kept as the triple
\* <<m, c, v>>.
ISqrt(n) == CHOOSE k \in 0..n : k * k <= n /\ (k + 1) * (k + 1) > n
IsSquare(n) == ISqrt(n) * ISqrt(n) = n

Surd(m, c, v) ==
    IF c = Zero \/ v = Zero THEN m
    ELSE IF IsSquare(v[1]) /\ IsSquare(v[2])
         THEN RAdd(m, RMul(c, <<ISqrt(v[1]), ISqrt(v[2])>>))
         ELSE <<m, c, v>>

VarAt(real, p, i) ==
    LET w == Slice(real, i - p + 1, i)
        m == Mean(w)
    IN  RSub(Mean([j \in 1..p |-> RMul(w[j], w[j])]), RMul(m, m))

TalibBBANDS(real, p, up, dn) ==
    LET mid == TalibSMA(real, p)
        upper == [i \in DOMAIN real |->
                    IF i < p THEN NaN ELSE Surd(mid[i], up, VarAt(real, p, i))]
        lower == [i \in DOMAIN real |->
                    IF i < p THEN NaN
                    ELSE Surd(mid[i], RSub(Zero, dn), VarAt(real, p, i))]
    IN  <<upper, mid, lower>>

(***************************************************************************)
(* services/indicators/*.py: each calculate_* copies the frame and writes  *)
(* its columns, computed from the frame's bar columns.                     *)
(***************************************************************************)
ColName(prefix, period) == prefix \o ToString(period)

calculate_sma(f, period) ==
    SetCol(f, ColName("SMA", period), TalibSMA(f.data["close"], period))

calculate_ema(f, period) ==
    SetCol(f, ColName("EMA", period), TalibEMA(f.data["close"], period))

calculate_wma(f, period) ==
    SetCol(f, ColName("WMA", period), TalibWMA(f.data["close"], period))

calculate_rsi(f, period) ==
    SetCol(f, "RSI", TalibRSI(f.data["close"], period))

calculate_macd(f, fast_period, slow_period, signal_period) ==
    LET m == TalibMACD(f.data["close"], fast_period, slow_period, signal_period)
    IN  SetCol(SetCol(SetCol(f, "MACD", m[1]), "MACD_signal", m[2]),
               "MACD_hist", m[3])

calculate_kdj(f, fastk_period, slowk_period, slowd_period) ==
    LET kd == TalibSTOCH(f.data["high"], f.data["low"], f.data["close"],
                         fastk_period, slowk_period, slowd_period)
    IN  SetCol(SetCol(SetCol(f, "K", kd[1]), "D", kd[2]), "J", NpJ(kd[1], kd[2]))

calculate_bollinger_bands(f, period, nbdev_up, nbdev_down) ==
    LET b == TalibBBANDS(f.data["close"], period, nbdev_up, nbdev_down)
    IN  SetCol(SetCol(SetCol(f, "BOLL_upper", b[1]), "BOLL_middle", b[2]),
               "BOLL_lower", b[3])

(***************************************************************************)
(* services/indicator_parser.py: IndicatorCalculator.                      *)
(* A request is [indicator_id |-> id, parameters |-> record].              *)
(***************************************************************************)
\* dict.get(key, default)
Get(params, key, default) ==
    IF key \in DOMAIN params THEN params[key] ELSE default

\* str.lower() on the MA type tokens
Lower(s) ==
    CASE s = "SMA" -> "sma"
      [] s = "EMA" -> "ema"
      [] s = "WMA" -> "wma"
      [] OTHER -> s

SourcePrefix(ma_type) ==
    CASE ma_type = "sma" -> "SMA"
      [] ma_type = "ema" -> "EMA"
      [] ma_type = "wma" -> "WMA"

CalculateFunc(ma_type, f, period) ==
    CASE ma_type = "sma" -> calculate_sma(f, period)
      [] ma_type = "ema" -> calculate_ema(f, period)
      [] ma_type = "wma" -> calculate_wma(f, period)

\* variant: an existing MA{period} column is kept (first write wins)
MaPeriodStep_FirstWins(f, ma_type, period) ==
    LET r          == CalculateFunc(ma_type, f, period)
        source_col == ColName(SourcePrefix(ma_type), period)
        target_col == ColName("MA", period)
    IN  IF target_col \in Columns(f)
        THEN DropCol(r, source_col)
        ELSE DropCol(SetCol(r, target_col, r.data[source_col]), source_col)

\* variant: the type-prefixed column is not dropped
MaPeriodStep_KeepSource(f, ma_type, period) ==
    LET r          == CalculateFunc(ma_type, f, period)
        source_col == ColName(SourcePrefix(ma_type), period)
        target_col == ColName("MA", period)
    IN  SetCol(r, target_col, r.data[source_col])

\* one iteration of the period loop: compute the type-prefixed column,
\* copy it to MA{period}, drop the type-prefixed column
MaPeriodStep(f, ma_type, period) ==
    LET r          == CalculateFunc(ma_type, f, period)
        source_col == ColName(SourcePrefix(ma_type), period)
        target_col == ColName("MA", period)
    IN  IF source_col \in Columns(r)
        THEN DropCol(SetCol(r, target_col, r.data[source_col]), source_col)
        ELSE r

RECURSIVE MaPeriodLoop(_, _, _)
MaPeriodLoop(f, ma_type, periods) ==
    IF periods = <<>> THEN f
    ELSE MaPeriodLoop(MaPeriodStep(f, ma_type, Head(periods)), ma_type,
                      Tail(periods))

_calculate_ma(f, params) ==
    MaPeriodLoop(f, Lower(Get(params, "ma_type", "sma")),
                 Get(params, "periods", <<20>>))

_calculate_kdj(f, params) ==
    calculate_kdj(f, Get(params, "fastk_period", 9),
                  Get(params, "slowk_period", 3), Get(params, "slowd_period", 3))

_calculate_macd(f, params) ==
    calculate_macd(f, Get(params, "fast_period", 12),
                   Get(params, "slow_period", 26), Get(params, "signal_period", 9))

_calculate_rsi(f, params) ==
    calculate_rsi(f, Get(params, "period", 14))

_calculate_boll(f, params) ==
    calculate_bollinger_bands(f, Get(params, "period", 20),
                              Get(params, "nbdev_up", R(2)),
                              Get(params, "nbdev_down", R(2)))

\* variant: NaN is filled after every request instead of once at the end
ApplyOne_FillEach(f, request) ==
    FillNa(CASE request.indicator_id = "ma"   -> _calculate_ma(f, request.parameters)
             [] request.indicator_id = "kdj"  -> _calculate_kdj(f, request.parameters)
             [] request.indicator_id = "macd" -> _calculate_macd(f, request.parameters)
             [] request.indicator_id = "rsi"  -> _calculate_rsi(f, request.parameters)
             [] request.indicator_id = "boll" -> _calculate_boll(f, request.parameters)
             [] OTHER -> f)

\* variant: every request is applied to the input df, not to result
ApplyOne_FromInput(f, request) ==
    CASE request.indicator_id = "ma"   -> _calculate_ma(df, request.parameters)
      [] request.indicator_id = "kdj"  -> _calculate_kdj(df, request.parameters)
      [] request.indicator_id = "macd" -> _calculate_macd(df, request.parameters)
      [] request.indicator_id = "rsi"  -> _calculate_rsi(df, request.parameters)
      [] request.indicator_id = "boll" -> _calculate_boll(df, request.parameters)
      [] OTHER -> f

\* the if/elif chain of the request loop; an id outside it changes nothing
ApplyOne(f, request) ==
    CASE request.indicator_id = "ma"   -> _calculate_ma(f, request.parameters)
      [] request.indicator_id = "kdj"  -> _calculate_kdj(f, request.parameters)
      [] request.indicator_id = "macd" -> _calculate_macd(f, request.parameters)
      [] request.indicator_id = "rsi"  -> _calculate_rsi(f, request.parameters)
      [] request.indicator_id = "boll" -> _calculate_boll(f, request.parameters)
      [] OTHER -> f

\* variant: an id outside the chain is rejected
Raises_UnknownId(request) ==
    request.indicator_id \notin {"ma", "kdj", "macd", "rsi", "boll"}

\* the request makes its calculation raise: an MA type outside sma/ema/wma
\* (ValueError), or a period TA-Lib rejects
Raises(request) ==
    LET q == request.parameters
    IN  CASE request.indicator_id = "ma" ->
               \/ Lower(Get(q, "ma_type", "sma")) \notin {"sma", "ema", "wma"}
               \/ \E i \in DOMAIN Get(q, "periods", <<20>>) :
                     ~TalibPeriodOk(Get(q, "periods", <<20>>)[i])
          [] request.indicator_id = "kdj" ->
               \/ ~TalibPeriod1Ok(Get(q, "fastk_period", 9))
               \/ ~TalibPeriod1Ok(Get(q, "slowk_period", 3))
               \/ ~TalibPeriod1Ok(Get(q, "slowd_period", 3))
          [] request.indicator_id = "macd" ->
               \/ ~TalibPeriodOk(Get(q, "fast_period", 12))
               \/ ~TalibPeriodOk(Get(q, "slow_period", 26))
               \/ ~TalibPeriod1Ok(Get(q, "signal_period", 9))
          [] request.indicator_id = "rsi" ->
               ~TalibPeriodOk(Get(q, "period", 14))
          [] request.indicator_id = "boll" ->
               ~TalibPeriodOk(Get(q, "period", 20))
          [] OTHER -> FALSE

(***************************************************************************)
(* Inputs of calculate.                                                    *)
(***************************************************************************)
BarColumns == <<"time", "open", "high", "low", "close", "vol">>

\* daily bars; the first has no open price (an empty CSV cell)
BarKinds ==
    { [open |-> NaN,  high |-> R(4), low |-> R(2), close |-> R(4), vol |-> R(5)],
      [open |-> R(3), high |-> R(3), low |-> R(1), close |-> R(1), vol |-> R(7)] }

Day(i) == <<2024, 1, i>>

\* the frame of a sequence of bars, dated by consecutive days
FrameOf(bs, datecol) ==
    [cols |-> <<datecol, "open", "high", "low", "close", "vol">>,
     data |-> [c \in {datecol, "open", "high", "low", "close", "vol"} |->
                 [i \in DOMAIN bs |->
                     CASE c = datecol -> bs[i].date
                       [] c = "open"  -> bs[i].open
                       [] c = "high"  -> bs[i].high
                       [] c = "low"   -> bs[i].low
                       [] c = "close" -> bs[i].close
                       [] c = "vol"   -> bs[i].vol]]]

Dated(b, d) ==
    [date |-> d, open |-> b.open, high |-> b.high, low |-> b.low,
     close |-> b.close, vol |-> b.vol]

SeqsUpTo(S, n) == UNION {[1..k -> S] : k \in 0..n}

CalcInputs ==
    {FrameOf([i \in DOMAIN ks |-> Dated(ks[i], Day(i))], "time") :
        ks \in SeqsUpTo(BarKinds, MaxBars) \ {<<>>}}

MaRequest(t, ps) ==
    [indicator_id |-> "ma", parameters |-> [ma_type |-> t, periods |-> ps]]
KdjRequest(a, b, c) ==
    [indicator_id |-> "kdj",
     parameters |-> [fastk_period |-> a, slowk_period |-> b, slowd_period |-> c]]
MacdRequest(a, b, c) ==
    [indicator_id |-> "macd",
     parameters |-> [fast_period |-> a, slow_period |-> b, signal_period |-> c]]
RsiRequest(p) ==
    [indicator_id |-> "rsi", parameters |-> [period |-> p]]
BollRequest(p, n) ==
    [indicator_id |-> "boll",
     parameters |-> [period |-> p, nbdev_up |-> n, nbdev_down |-> n]]

\* a request whose id is none of the five lower-case ids
UnknownRequest == [indicator_id |-> "RSI", parameters |-> [period |-> 2]]

\* requests as IndicatorParser.parse builds them, and one it cannot build
RequestUniverse ==
    {MaRequest("wma", <<2>>), MaRequest("ema", <<3, 2>>), MaRequest("sma", <<1>>)}
    \cup {KdjRequest(2, 1, 2), MacdRequest(2, 3, 1), RsiRequest(2),
          BollRequest(2, R(2))}
    \cup {RsiRequest(3), UnknownRequest}

(***************************************************************************)
(* IndicatorCalculator.calculate as a state machine: the state after       *)
(* result = df.copy(), one step per loop iteration, one for fillna/return. *)
(***************************************************************************)
\* parse has not been called
NoOutcome == [kind |-> "none"]

ParseIdle ==
    /\ indicators_str = ""
    /\ indicator_parts = <<>>
    /\ part_idx = 0
    /\ parsed = <<>>
    /\ outcome = NoOutcome
    /\ ppc = "idle"

AggIdle ==
    /\ bars = EmptyFrame
    /\ interval = "daily"
    /\ out = EmptyFrame
    /\ apc = "idle"

\* no calculate_* function has been called on its own
MathIdle ==
    /\ math_df = EmptyFrame
    /\ math_call = [fn |-> "none"]
    /\ math_ret = EmptyFrame
    /\ math_pc = "idle"

\* no request is being served
RouteIdle ==
    /\ handler = "none"
    /\ stored = NoOutcome
    /\ query = [indicators |-> ""]
    /\ response = NoOutcome
    /\ rpc = "idle"

CalcInit ==
    /\ df \in CalcInputs
    /\ requests \in SeqsUpTo(RequestUniverse, MaxReqs)
    /\ result = df
    /\ idx = 0
    /\ pc = "loop"
    /\ AggIdle
    /\ ParseIdle
    /\ MathIdle
    /\ RouteIdle

ApplyRequest ==
    /\ pc = "loop"
    /\ idx < Len(requests)
    /\ ~Raises(requests[idx + 1])
    /\ result' = ApplyOne(result, requests[idx + 1])
    /\ idx' = idx + 1
    /\ UNCHANGED <<df, requests, pc, aggVars, parseVars,
                   mathVars, routeVars>>

ApplyRaises ==
    /\ pc = "loop"
    /\ idx < Len(requests)
    /\ Raises(requests[idx + 1])
    /\ pc' = "error"
    /\ result' = EmptyFrame
    /\ UNCHANGED <<df, requests, idx, aggVars, parseVars,
                   mathVars, routeVars>>

\* variant: an empty request list is given the default MA request
Finish_WithDefaults ==
    /\ pc = "loop"
    /\ idx = Len(requests)
    /\ result' = FillNa(IF requests = <<>>
                        THEN _calculate_ma(result, [indicator_id |-> "ma"])
                        ELSE result)
    /\ pc' = "done"
    /\ UNCHANGED <<df, requests, idx, aggVars, parseVars,
                   mathVars, routeVars>>

Finish ==
    /\ pc = "loop"
    /\ idx = Len(requests)
    /\ result' = FillNa(result)
    /\ pc' = "done"
    /\ UNCHANGED <<df, requests, idx, aggVars, parseVars,
                   mathVars, routeVars>>

CalcNext == ApplyRequest \/ ApplyRaises \/ Finish

SpecCalc == CalcInit /\ [][CalcNext]_vars

(***************************************************************************)
(* Calendar arithmetic behind pd.to_datetime, strftime and the resampling  *)
(* offsets: a timestamp at midnight is its day number since 1970-01-01.    *)
(***************************************************************************)
IsLeap(y) == (y % 4 = 0 /\ y % 100 # 0) \/ y % 400 = 0

DaysInMonth(y, m) ==
    CASE m \in {1, 3, 5, 7, 8, 10, 12} -> 31
      [] m \in {4, 6, 9, 11} -> 30
      [] OTHER -> IF IsLeap(y) THEN 29 ELSE 28

\* pd.to_datetime("YYYY-MM-DD")
\* (the year y counted from March, mp the month counted from March)
DaysFromCivil(y, mp, d) ==
    (y \div 400) * 146097
      + (y % 400) * 365 + (y % 400) \div 4 - (y % 400) \div 100
      + (153 * mp + 2) \div 5 + d - 1 - 719468

ToDatetime(date) ==
    IF date[2] <= 2
    THEN DaysFromCivil(date[1] - 1, date[2] + 9, date[3])
    ELSE DaysFromCivil(date[1], date[2] - 3, date[3])

\* Timestamp.strftime("%Y-%m-%d")
\* (era: 400-year cycle, doe/yoe: day/year of the era, doy: day of the
\* year counted from March, mp: month counted from March)
CivilFromMp(era, yoe, doy, mp) ==
    << yoe + era * 400 + (IF mp >= 10 THEN 1 ELSE 0),
       IF mp < 10 THEN mp + 3 ELSE mp - 9,
       doy - (153 * mp + 2) \div 5 + 1 >>
CivilFromDoy(era, yoe, doy) == CivilFromMp(era, yoe, doy, (5 * doy + 2) \div 153)
CivilFromYoe(era, doe, yoe) ==
    CivilFromDoy(era, yoe, doe - (365 * yoe + yoe \div 4 - yoe \div 100))
CivilFromDoe(era, doe) ==
    CivilFromYoe(era, doe,
                 (doe - doe \div 1460 + doe \div 36524 - doe \div 146096) \div 365)

Strftime(t) == CivilFromDoe((t + 719468) \div 146097, (t + 719468) % 146097)

\* Timestamp.weekday(): Monday = 0 ... Friday = 4 ... Sunday = 6
Weekday(t) == (t + 3) % 7

MonthEnd(y, m) == ToDatetime(<<y, m, DaysInMonth(y, m)>>)

\* months since year 0, and back
MonthIndex(t) == Strftime(t)[1] * 12 + Strftime(t)[2] - 1
MonthEndOfIndex(k) == MonthEnd(k \div 12, (k % 12) + 1)

\* the anchor weekday of a weekly rule: "W-FRI" is Week(weekday=4)
RuleWeekday(rule) == IF rule = "W-FRI" THEN 4 ELSE 6

\* Week(weekday=wd): t + offset and t - offset
WeekNext(t, wd) == IF Weekday(t) = wd THEN t + 7 ELSE t + ((wd - Weekday(t)) % 7)
WeekPrev(t, wd) == IF Weekday(t) = wd THEN t - 7 ELSE t - ((Weekday(t) - wd) % 7)

\* MonthEnd(): t + offset and t - offset
MonthEndNext(t) ==
    IF t = MonthEndOfIndex(MonthIndex(t))
    THEN MonthEndOfIndex(MonthIndex(t) + 1)
    ELSE MonthEndOfIndex(MonthIndex(t))
MonthEndPrev(t) == MonthEndOfIndex(MonthIndex(t) - 1)

\* date_range(start, end, freq) between two on-offset timestamps
WeekRange(a, b) == [k \in 1..((b - a) \div 7 + 1) |-> a + 7 * (k - 1)]
MonthRange(a, b) ==
    [k \in 1..(MonthIndex(b) - MonthIndex(a) + 1) |->
        MonthEndOfIndex(MonthIndex(a) + k - 1)]

(***************************************************************************)
(* DataFrame.resample(rule).agg(...) for the rules "W-FRI" and "M", both   *)
(* closed and labelled on the right edge.                                  *)
(***************************************************************************)
\* bin edges: from first - offset to last + offset, the last edge dropped
\* when the one before it already covers the last timestamp
DateRange(rule, first, last) ==
    IF rule = "M"
    THEN MonthRange(MonthEndPrev(first), MonthEndNext(last))
    ELSE WeekRange(WeekPrev(first, RuleWeekday(rule)),
                   WeekNext(last, RuleWeekday(rule)))

AdjustBinEdges(e, last) ==
    IF e[Len(e) - 1] >= last THEN SubSeq(e, 1, Len(e) - 1) ELSE e

BinEdges(rule, times) ==
    AdjustBinEdges(DateRange(rule, times[1], times[Len(times)]), times[Len(times)])

\* the row numbers falling into the bin (lo, hi], in row order
BinRows(times, lo, hi) ==
    SelectSeq([i \in DOMAIN times |-> i],
              LAMBDA i : lo < times[i] /\ times[i] <= hi)

NotNull(col) == SelectSeq(col, LAMBDA x : ~IsNaN(x))

\* the aggregations skip NaN cells; an empty group gives NaN, its sum 0
AggFirst(col) == IF NotNull(col) = <<>> THEN NaN ELSE NotNull(col)[1]
AggLast(col)  == IF NotNull(col) = <<>> THEN NaN ELSE NotNull(col)[Len(NotNull(col))]
\* variant: "high": "last" instead of "max"
AggMax_Last(col) == IF NotNull(col) = <<>> THEN NaN ELSE NotNull(col)[Len(NotNull(col))]

AggMax(col)   == IF NotNull(col) = <<>> THEN NaN ELSE RMaxOf(NotNull(col))
AggMin(col)   == IF NotNull(col) = <<>> THEN NaN ELSE RMinOf(NotNull(col))
AggSum(col)   == RSum(NotNull(col))

Take(col, rows) == [k \in DOMAIN rows |-> col[rows[k]]]

\* one output row per bin, labelled with the bin's right edge
AggColumn(c, col) ==
    CASE c = "open"  -> AggFirst(col)
      [] c = "high"  -> AggMax(col)
      [] c = "low"   -> AggMin(col)
      [] c = "close" -> AggLast(col)
      [] c = "vol"   -> AggSum(col)

Binned(f, times, edges) ==
    [cols |-> <<"date", "open", "high", "low", "close", "vol">>,
     data |-> [c \in {"date", "open", "high", "low", "close", "vol"} |->
                 [k \in 1..(Len(edges) - 1) |->
                    IF c = "date"
                    THEN edges[k + 1]
                    ELSE AggColumn(c, Take(f.data[c],
                                           BinRows(times, edges[k], edges[k + 1])))]]]

\* the index set by set_index("date"), as timestamps
DateIndex(f) == [i \in DOMAIN f.data["date"] |-> ToDatetime(f.data["date"][i])]

Resampled(f, rule) == Binned(f, DateIndex(f), BinEdges(rule, DateIndex(f)))

\* variant: dropna() is not called
DropNa_Omitted(f) == f

\* DataFrame.dropna(): rows with a NaN cell in any column are removed
DropNa(f) ==
    LET n    == NRows(f)
        keep == SelectSeq([i \in 1..n |-> i],
                          LAMBDA i : \A c \in Columns(f) \ {"date"} :
                                         ~IsNaN(f.data[c][i]))
    IN  [cols |-> f.cols,
         data |-> [c \in DOMAIN f.data |-> Take(f.data[c], keep)]]

\* variant: the day is not written, strftime("%Y-%m-01")
DatesToStrings_MonthOnly(f) ==
    [cols |-> f.cols,
     data |-> [c \in DOMAIN f.data |->
                 IF c = "date"
                 THEN [i \in DOMAIN f.data[c] |->
                         <<Strftime(f.data[c][i])[1], Strftime(f.data[c][i])[2], 1>>]
                 ELSE f.data[c]]]

\* resampled["date"].dt.strftime("%Y-%m-%d")
DatesToStrings(f) ==
    [cols |-> f.cols,
     data |-> [c \in DOMAIN f.data |->
                 IF c = "date"
                 THEN [i \in DOMAIN f.data[c] |-> Strftime(f.data[c][i])]
                 ELSE f.data[c]]]

(***************************************************************************)
(* services/timeframe_service.py: TimeframeService.                        *)
(***************************************************************************)
\* variant: rule "W" (weeks ending on Sunday) instead of "W-FRI"
_resample_to_weekly_Sunday(f) == DatesToStrings(DropNa(Resampled(f, "W")))

_resample_to_weekly(f) == DatesToStrings(DropNa(Resampled(f, "W-FRI")))

\* variant: the weekly rule left in the monthly method
_resample_to_monthly_WeeklyRule(f) == DatesToStrings(DropNa(Resampled(f, "W-FRI")))

_resample_to_monthly(f) == DatesToStrings(DropNa(Resampled(f, "M")))

SupportedIntervals == {"daily", "weekly", "monthly"}

\* variant: "daily" is resampled like "weekly" instead of copied
resample_data_DailyResampled(f, token) ==
    CASE token = "daily"   -> _resample_to_weekly(f)
      [] token = "weekly"  -> _resample_to_weekly(f)
      [] token = "monthly" -> _resample_to_monthly(f)

resample_data(f, token) ==
    CASE token = "daily"   -> f
      [] token = "weekly"  -> _resample_to_weekly(f)
      [] token = "monthly" -> _resample_to_monthly(f)

(***************************************************************************)
(* Inputs of resample_data: daily bars with strictly increasing dates.     *)
(***************************************************************************)
AggBarKinds ==
    { [open |-> R(2), high |-> R(3), low |-> R(1), close |-> R(2), vol |-> R(10)],
      [open |-> R(3), high |-> R(5), low |-> R(2), close |-> R(4), vol |-> R(5)] }

\* Thu, Fri, Sat and Wed (month end) in January 2024; Thu and Fri of the same
\* week in February; a Friday after an empty week; Wed 28 Feb of a leap
\* year; a Monday after an empty March; a Monday in January of the next year
CandidateDates ==
    << <<2024, 1, 25>>, <<2024, 1, 26>>, <<2024, 1, 27>>, <<2024, 1, 31>>,
       <<2024, 2, 1>>, <<2024, 2, 2>>, <<2024, 2, 16>>, <<2024, 2, 28>>,
       <<2024, 4, 29>>, <<2025, 1, 27>> >>

\* strictly increasing index sequences into CandidateDates
Increasing(n) ==
    {s \in SeqsUpTo(DOMAIN CandidateDates, n) :
        s # <<>> /\ \A i \in 1..(Len(s) - 1) : s[i] < s[i + 1]}

AggInputs ==
    UNION {{FrameOf([i \in DOMAIN s |-> Dated(ks[i], CandidateDates[s[i]])], "date") :
               ks \in [DOMAIN s -> AggBarKinds]} : s \in Increasing(MaxDays)}

IntervalTokens == SupportedIntervals \cup {"Weekly", ""}

CalcIdle ==
    /\ df = EmptyFrame
    /\ requests = <<>>
    /\ result = EmptyFrame
    /\ idx = 0
    /\ pc = "idle"

AggInit ==
    /\ bars \in AggInputs
    /\ interval \in IntervalTokens
    /\ out = EmptyFrame
    /\ apc = "ready"
    /\ CalcIdle
    /\ ParseIdle
    /\ MathIdle
    /\ RouteIdle

Resample ==
    /\ apc = "ready"
    /\ interval \in SupportedIntervals
    /\ out' = resample_data(bars, interval)
    /\ apc' = "done"
    /\ UNCHANGED <<bars, interval, calcVars, parseVars,
                   mathVars, routeVars>>

\* variant: an unknown token falls back to "daily" instead of raising
ResampleRaises_FallsBackToDaily ==
    /\ apc = "ready"
    /\ interval \notin SupportedIntervals
    /\ out' = bars
    /\ apc' = "done"
    /\ UNCHANGED <<bars, interval, calcVars, parseVars,
                   mathVars, routeVars>>

ResampleRaises ==
    /\ apc = "ready"
    /\ interval \notin SupportedIntervals
    /\ apc' = "error"
    /\ UNCHANGED <<bars, interval, out, calcVars, parseVars,
                   mathVars, routeVars>>

AggNext == Resample \/ ResampleRaises

SpecAgg == AggInit /\ [][AggNext]_vars

(***************************************************************************)
(* Python str operations used by IndicatorParser.  A str is a TLA+ string; *)
(* its i-th character is SubSeq(s, i, i).                                  *)
(***************************************************************************)
Char(s, i) == SubSeq(s, i, i)

\* ch in s
Contains(s, ch) == \E i \in 1..Len(s) : Char(s, i) = ch

\* s.index(ch)
IndexOf(s, ch) ==
    CHOOSE i \in 1..Len(s) : Char(s, i) = ch /\ \A j \in 1..(i - 1) : Char(s, j) # ch

\* s.split(ch)
RECURSIVE Split(_, _)
Split(s, ch) ==
    IF ~Contains(s, ch) THEN <<s>>
    ELSE <<SubSeq(s, 1, IndexOf(s, ch) - 1)>>
            \o Split(SubSeq(s, IndexOf(s, ch) + 1, Len(s)), ch)

\* s.split(ch, 1) for a string that contains ch
SplitOnce(s, ch) ==
    <<SubSeq(s, 1, IndexOf(s, ch) - 1), SubSeq(s, IndexOf(s, ch) + 1, Len(s))>>

Whitespace == {" ", "\t", "\n"}

RECURSIVE LStrip(_)
LStrip(s) ==
    IF s # "" /\ Char(s, 1) \in Whitespace THEN LStrip(SubSeq(s, 2, Len(s))) ELSE s

RECURSIVE RStrip(_)
RStrip(s) ==
    IF s # "" /\ Char(s, Len(s)) \in Whitespace
    THEN RStrip(SubSeq(s, 1, Len(s) - 1)) ELSE s

\* s.strip()
Strip(s) == LStrip(RStrip(s))

UpperCase == "ABCDEFGHIJKLMNOPQRSTUVWXYZ"
LowerCase == "abcdefghijklmnopqrstuvwxyz"

LowerChar(c) ==
    IF Contains(UpperCase, c) THEN Char(LowerCase, IndexOf(UpperCase, c)) ELSE c

\* s.lower()
RECURSIVE StrLower(_)
StrLower(s) ==
    IF s = "" THEN "" ELSE LowerChar(Char(s, 1)) \o StrLower(SubSeq(s, 2, Len(s)))

DecimalDigits == "0123456789"
IsDigits(s) == \A i \in 1..Len(s) : Contains(DecimalDigits, Char(s, i))

RECURSIVE DigitsValue(_)
DigitsValue(s) ==
    IF s = "" THEN 0
    ELSE 10 * DigitsValue(SubSeq(s, 1, Len(s) - 1))
            + IndexOf(DecimalDigits, Char(s, Len(s))) - 1

\* a numeric literal without its sign, and the sign
Unsigned(s) ==
    IF s # "" /\ Char(s, 1) \in {"+", "-"} THEN SubSeq(s, 2, Len(s)) ELSE s
Sign(s) == IF s # "" /\ Char(s, 1) = "-" THEN -1 ELSE 1

\* int(s): surrounding whitespace, one optional sign, decimal digits
IntOk(s) == Unsigned(Strip(s)) # "" /\ IsDigits(Unsigned(Strip(s)))
IntValue(s) == Sign(Strip(s)) * DigitsValue(Unsigned(Strip(s)))

RECURSIVE Pow10(_)
Pow10(k) == IF k = 0 THEN 1 ELSE 10 * Pow10(k - 1)

\* float(s) for decimal literals: digits with at most one point and at
\* least one digit (no exponent, inf or nan is written in the inputs here)
DecimalOk(u) ==
    IF Contains(u, ".")
    THEN /\ IsDigits(SplitOnce(u, ".")[1])
         /\ IsDigits(SplitOnce(u, ".")[2])
         /\ Len(u) > 1
    ELSE u # "" /\ IsDigits(u)
DecimalValue(u) ==
    IF Contains(u, ".")
    THEN Norm(DigitsValue(SplitOnce(u, ".")[1] \o SplitOnce(u, ".")[2]),
              Pow10(Len(SplitOnce(u, ".")[2])))
    ELSE R(DigitsValue(u))
FloatOk(s) == DecimalOk(Unsigned(Strip(s)))
FloatValue(s) == RMul(R(Sign(Strip(s))), DecimalValue(Unsigned(Strip(s))))

\* the outcome of a call: a returned value or a raised ValueError
Returns(v) == [ok |-> TRUE, value |-> v]
RaisesValueError(msg) == [ok |-> FALSE, message |-> msg]

\* int() and float() of the first literal that does not convert
IntError(lit) ==
    RaisesValueError("invalid literal for int() with base 10: '" \o lit \o "'")
FloatError(lit) ==
    RaisesValueError("could not convert string to float: '" \o lit \o "'")
FirstBadInt(lits) ==
    CHOOSE i \in 1..Len(lits) :
        ~IntOk(lits[i]) /\ \A j \in 1..(i - 1) : IntOk(lits[j])
AllInts(lits) == \A i \in 1..Len(lits) : IntOk(lits[i])

(***************************************************************************)
(* services/indicator_parser.py: IndicatorParser.                          *)
(***************************************************************************)
StripAll(lits) == [i \in 1..Len(lits) |-> Strip(lits[i])]
IntList(lits) == [i \in 1..Len(lits) |-> IntValue(lits[i])]

\* periods = [int(p.strip()) for p in periods_str.split(",")]
MaPeriods(ma_type, lits) ==
    IF AllInts(lits)
    THEN Returns([ma_type |-> ma_type, periods |-> IntList(lits)])
    ELSE IntError(lits[FirstBadInt(lits)])

MaTyped(ma_type, periods_str) ==
    IF ma_type \notin {"sma", "ema", "wma"}
    THEN RaisesValueError("Unknown MA type: " \o ma_type
                             \o ". Must be sma, ema, or wma")
    ELSE MaPeriods(ma_type, StripAll(Split(periods_str, ",")))

\* variant: the type is compared as written, without lower()
_parse_ma_params_CaseSensitive(params_str) ==
    IF Contains(params_str, ":")
    THEN MaTyped(Strip(SplitOnce(params_str, ":")[1]), SplitOnce(params_str, ":")[2])
    ELSE MaPeriods("sma", StripAll(Split(params_str, ",")))

_parse_ma_params(params_str) ==
    IF Contains(params_str, ":")
    THEN MaTyped(StrLower(Strip(SplitOnce(params_str, ":")[1])),
                 SplitOnce(params_str, ":")[2])
    ELSE MaPeriods("sma", StripAll(Split(params_str, ",")))

KdjParams(parts) ==
    IF Len(parts) # 3
    THEN RaisesValueError("KDJ requires 3 parameters: fastk-slowk-slowd")
    ELSE IF ~AllInts(parts) THEN IntError(parts[FirstBadInt(parts)])
    ELSE Returns([fastk_period |-> IntValue(parts[1]),
                  slowk_period |-> IntValue(parts[2]),
                  slowd_period |-> IntValue(parts[3])])

_parse_kdj_params(params_str) == KdjParams(Split(params_str, "-"))

\* variant: len(parts) < 3 is rejected, more than three fields are accepted
MacdParams_AtLeast3(parts) ==
    IF Len(parts) < 3
    THEN RaisesValueError("MACD requires 3 parameters: fast-slow-signal")
    ELSE IF ~AllInts(SubSeq(parts, 1, 3))
         THEN IntError(parts[FirstBadInt(SubSeq(parts, 1, 3))])
    ELSE Returns([fast_period |-> IntValue(parts[1]),
                  slow_period |-> IntValue(parts[2]),
                  signal_period |-> IntValue(parts[3])])

MacdParams(parts) ==
    IF Len(parts) # 3
    THEN RaisesValueError("MACD requires 3 parameters: fast-slow-signal")
    ELSE IF ~AllInts(parts) THEN IntError(parts[FirstBadInt(parts)])
    ELSE Returns([fast_period |-> IntValue(parts[1]),
                  slow_period |-> IntValue(parts[2]),
                  signal_period |-> IntValue(parts[3])])

_parse_macd_params(params_str) == MacdParams(Split(params_str, "-"))

_parse_rsi_params(params_str) ==
    IF IntOk(params_str) THEN Returns([period |-> IntValue(params_str)])
    ELSE IntError(params_str)

\* variant: a third field, when written, is the lower multiplier
BollParams_ThirdIsDown(parts) ==
    IF Len(parts) < 2
    THEN RaisesValueError("BOLL requires at least 2 parameters: period-nbdev")
    ELSE IF ~IntOk(parts[1]) THEN IntError(parts[1])
    ELSE IF ~FloatOk(parts[2]) THEN FloatError(parts[2])
    ELSE Returns([period |-> IntValue(parts[1]),
                  nbdev_up |-> FloatValue(parts[2]),
                  nbdev_down |-> IF Len(parts) >= 3 /\ FloatOk(parts[3])
                                 THEN FloatValue(parts[3])
                                 ELSE FloatValue(parts[2])])

BollParams(parts) ==
    IF Len(parts) < 2
    THEN RaisesValueError("BOLL requires at least 2 parameters: period-nbdev")
    ELSE IF ~IntOk(parts[1]) THEN IntError(parts[1])
    ELSE IF ~FloatOk(parts[2]) THEN FloatError(parts[2])
    ELSE Returns([period |-> IntValue(parts[1]),
                  nbdev_up |-> FloatValue(parts[2]),
                  nbdev_down |-> FloatValue(parts[2])])

_parse_boll_params(params_str) == BollParams(Split(params_str, "-"))

\* variant: both separators split, whatever the string contains
IndicatorParts_BothSeparators(s) ==
    LET RECURSIVE Flat(_)
        Flat(ps) == IF ps = <<>> THEN <<>>
                    ELSE Split(Head(ps), "|") \o Flat(Tail(ps))
    IN  Flat(Split(s, ";"))

\* line 64: split on ";" if the string has one, else on "|"
IndicatorParts(s) == IF Contains(s, ";") THEN Split(s, ";") ELSE Split(s, "|")

\* variant: the id is compared as written, without lower()
ClauseId_CaseSensitive(part) == Strip(SplitOnce(part, ":")[1])

\* indicator_id, params_str = part.split(":", 1), stripped
ClauseId(part) == StrLower(Strip(SplitOnce(part, ":")[1]))
ClauseParams(part) == Strip(SplitOnce(part, ":")[2])

\* the if/elif chain on indicator_id
ParseParameters(indicator_id, params_str) ==
    CASE indicator_id = "ma"   -> _parse_ma_params(params_str)
      [] indicator_id = "kdj"  -> _parse_kdj_params(params_str)
      [] indicator_id = "macd" -> _parse_macd_params(params_str)
      [] indicator_id = "rsi"  -> _parse_rsi_params(params_str)
      [] indicator_id = "boll" -> _parse_boll_params(params_str)
      [] OTHER -> RaisesValueError("Unknown indicator: " \o indicator_id)

\* try: ... except Exception as e: raise ValueError(...)
ClauseResult(indicator_id, params_str, r) ==
    IF r.ok
    THEN Returns([indicator_id |-> indicator_id, parameters |-> r.value])
    ELSE RaisesValueError("Failed to parse " \o indicator_id \o " parameters '"
                             \o params_str \o "': " \o r.message)

\* one iteration of the for-loop on a stripped, non-empty part
ParseClause(part) ==
    IF ~Contains(part, ":")
    THEN RaisesValueError("Invalid indicator format: '" \o part
                             \o "'. Expected format: 'indicator_id:params'")
    ELSE ClauseResult(ClauseId(part), ClauseParams(part),
                      ParseParameters(ClauseId(part), ClauseParams(part)))

\* variant: a request equal to an earlier one is not appended again
AppendRequest_Dedup(reqs, r) ==
    IF \E i \in 1..Len(reqs) : reqs[i] = r THEN reqs ELSE Append(reqs, r)

\* requests.append(IndicatorRequest(...))
AppendRequest(reqs, r) == Append(reqs, r)

(***************************************************************************)
(* Inputs of parse: up to MaxClauses clause texts joined by one separator, *)
(* and three blank strings.                                                *)
(***************************************************************************)
ClauseTexts ==
    { "ma:5,20", "ma:EMA: 12 ,26", "ma:xma:5", "ma:0",
      "kdj:9-3-3", "kdj:9-3", " KDJ :0-3-3",
      "macd:12-26-9", "macd:12-26-9-1",
      "rsi:14", "rsi:-14", "rsi", "rsi:14|rsi:6",
      "boll:20-2.0", "boll:20", "boll:20-1.5-7",
      "Vol:5", "" }

RECURSIVE Join(_, _)
Join(strs, sep) ==
    IF Len(strs) = 0 THEN ""
    ELSE IF Len(strs) = 1 THEN strs[1]
    ELSE strs[1] \o sep \o Join(Tail(strs), sep)

ParseInputs ==
    {"", "  ", " \t\n"} \cup
    {Join(cs, sep) : cs \in SeqsUpTo(ClauseTexts, MaxClauses) \ {<<>>},
                     sep \in {";", "|"}}

(***************************************************************************)
(* IndicatorParser.parse as a state machine: the early return, the split,  *)
(* one step per loop iteration, and the return.                            *)
(***************************************************************************)
Returned(reqs) == [kind |-> "return", value |-> reqs]
Raised(msg) == [kind |-> "ValueError", message |-> msg]

\* not indicators_str or indicators_str.strip() == ""
IsBlank(s) == s = "" \/ Strip(s) = ""

ParseInit ==
    /\ indicators_str \in ParseInputs
    /\ indicator_parts = <<>>
    /\ part_idx = 0
    /\ parsed = <<>>
    /\ outcome = NoOutcome
    /\ ppc = "start"
    /\ CalcIdle
    /\ AggIdle
    /\ MathIdle
    /\ RouteIdle

\* variant: a blank string is rejected
ParseBlank_Raises ==
    /\ ppc = "start"
    /\ IsBlank(indicators_str)
    /\ outcome' = Raised("Invalid indicator format: ''")
    /\ ppc' = "error"
    /\ UNCHANGED <<indicators_str, indicator_parts, part_idx, parsed, calcVars, aggVars,
                   mathVars, routeVars>>

ParseBlank ==
    /\ ppc = "start"
    /\ IsBlank(indicators_str)
    /\ outcome' = Returned(<<>>)
    /\ ppc' = "done"
    /\ UNCHANGED <<indicators_str, indicator_parts, part_idx, parsed, calcVars, aggVars,
                   mathVars, routeVars>>

ParseSplit ==
    /\ ppc = "start"
    /\ ~IsBlank(indicators_str)
    /\ indicator_parts' = IndicatorParts(indicators_str)
    /\ ppc' = "loop"
    /\ UNCHANGED <<indicators_str, part_idx, parsed, outcome, calcVars, aggVars,
                   mathVars, routeVars>>

ParseSkip ==
    /\ ppc = "loop"
    /\ part_idx < Len(indicator_parts)
    /\ Strip(indicator_parts[part_idx + 1]) = ""
    /\ part_idx' = part_idx + 1
    /\ UNCHANGED <<indicators_str, indicator_parts, parsed, outcome, ppc,
                   calcVars, aggVars,
                   mathVars, routeVars>>

ParseAppend ==
    /\ ppc = "loop"
    /\ part_idx < Len(indicator_parts)
    /\ Strip(indicator_parts[part_idx + 1]) # ""
    /\ ParseClause(Strip(indicator_parts[part_idx + 1])).ok
    /\ parsed' = AppendRequest(parsed,
                               ParseClause(Strip(indicator_parts[part_idx + 1])).value)
    /\ part_idx' = part_idx + 1
    /\ UNCHANGED <<indicators_str, indicator_parts, outcome, ppc, calcVars, aggVars,
                   mathVars, routeVars>>

\* variant: a malformed clause ends the loop and the requests built so far
\* are returned
ParseRaises_ReturnsPartial ==
    /\ ppc = "loop"
    /\ part_idx < Len(indicator_parts)
    /\ Strip(indicator_parts[part_idx + 1]) # ""
    /\ ~ParseClause(Strip(indicator_parts[part_idx + 1])).ok
    /\ outcome' = Returned(parsed)
    /\ ppc' = "done"
    /\ UNCHANGED <<indicators_str, indicator_parts, part_idx, parsed, calcVars, aggVars,
                   mathVars, routeVars>>

ParseRaises ==
    /\ ppc = "loop"
    /\ part_idx < Len(indicator_parts)
    /\ Strip(indicator_parts[part_idx + 1]) # ""
    /\ ~ParseClause(Strip(indicator_parts[part_idx + 1])).ok
    /\ outcome' = Raised(ParseClause(Strip(indicator_parts[part_idx + 1])).message)
    /\ ppc' = "error"
    /\ UNCHANGED <<indicators_str, indicator_parts, part_idx, parsed, calcVars, aggVars,
                   mathVars, routeVars>>

ParseReturn ==
    /\ ppc = "loop"
    /\ part_idx = Len(indicator_parts)
    /\ outcome' = Returned(parsed)
    /\ ppc' = "done"
    /\ UNCHANGED <<indicators_str, indicator_parts, part_idx, parsed, calcVars, aggVars,
                   mathVars, routeVars>>

ParseNext ==
    ParseBlank \/ ParseSplit \/ ParseSkip \/ ParseAppend \/ ParseRaises \/ ParseReturn

SpecParse == ParseInit /\ [][ParseNext]_vars

(***************************************************************************)
(* One call of calculate_sma or calculate_macd on a frame of closes.       *)
(***************************************************************************)
MaxCloses == 4  \* longest close series given to one calculate_* call

\* closes of 1 and 4, in every order
CloseFrames ==
    {[cols |-> <<"close">>, data |-> [c \in {"close"} |-> [i \in DOMAIN cs |-> R(cs[i])]]] :
        cs \in SeqsUpTo({1, 4}, MaxCloses)}

SmaCall(period) == [fn |-> "calculate_sma", period |-> period]
MacdCall(fast, slow, signal) ==
    [fn |-> "calculate_macd", fast_period |-> fast, slow_period |-> slow,
     signal_period |-> signal]

MathCalls ==
    {SmaCall(p) : p \in 1..3}
    \cup {MacdCall(2, 3, 2), MacdCall(2, 3, 1), MacdCall(1, 3, 2)}

\* talib.SMA raises on a period it does not accept
SmaRaises(call) == ~TalibPeriodOk(call.period)

\* talib.MACD raises on a period it does not accept
MacdRaises(call) ==
    \/ ~TalibPeriodOk(call.fast_period)
    \/ ~TalibPeriodOk(call.slow_period)
    \/ ~TalibPeriod1Ok(call.signal_period)

MathInit ==
    /\ math_df \in CloseFrames
    /\ math_call \in MathCalls
    /\ math_ret = EmptyFrame
    /\ math_pc = "ready"
    /\ CalcIdle
    /\ AggIdle
    /\ ParseIdle
    /\ RouteIdle

CallSma ==
    /\ math_pc = "ready"
    /\ math_call.fn = "calculate_sma"
    /\ ~SmaRaises(math_call)
    /\ math_ret' = calculate_sma(math_df, math_call.period)
    /\ math_pc' = "done"
    /\ UNCHANGED <<math_df, math_call, calcVars, aggVars, parseVars, routeVars>>

CallSmaRaises ==
    /\ math_pc = "ready"
    /\ math_call.fn = "calculate_sma"
    /\ SmaRaises(math_call)
    /\ math_pc' = "error"
    /\ UNCHANGED <<math_df, math_call, math_ret, calcVars, aggVars, parseVars,
                   routeVars>>

CallMacd ==
    /\ math_pc = "ready"
    /\ math_call.fn = "calculate_macd"
    /\ ~MacdRaises(math_call)
    /\ math_ret' = calculate_macd(math_df, math_call.fast_period,
                                  math_call.slow_period, math_call.signal_period)
    /\ math_pc' = "done"
    /\ UNCHANGED <<math_df, math_call, calcVars, aggVars, parseVars, routeVars>>

CallMacdRaises ==
    /\ math_pc = "ready"
    /\ math_call.fn = "calculate_macd"
    /\ MacdRaises(math_call)
    /\ math_pc' = "error"
    /\ UNCHANGED <<math_df, math_call, math_ret, calcVars, aggVars, parseVars,
                   routeVars>>

MathNext == CallSma \/ CallSmaRaises \/ CallMacd \/ CallMacdRaises

SpecMath == MathInit /\ [][MathNext]_vars

(***************************************************************************)
(* api/routes/stock.py: the two route functions and the response           *)
(* assemblers.  A date is the triple its "YYYY-MM-DD" string writes, and   *)
(* the empty tuple stands for an absent (None or empty) query date.        *)
(***************************************************************************)
\* Optional[list]: None, or a list
None == [none |-> TRUE, list |-> <<>>]
List(l) == [none |-> FALSE, list |-> l]

\* a or b on Optional[list]: None and the empty list are falsy
Or(a, b) == IF a.none \/ a.list = <<>> THEN b ELSE a

\* variant: the rows are not filtered
to_value_data_KeepZero(f, column_name) ==
    IF column_name \notin Columns(f) THEN None
    ELSE List([i \in 1..NRows(f) |->
                 [time |-> f.data["time"][i], value |-> f.data[column_name][i]]])

\* the comprehension over df.iterrows() with the filter row[column] != 0
RECURSIVE ValueRows(_, _, _)
ValueRows(f, column_name, i) ==
    IF i > NRows(f) THEN <<>>
    ELSE (IF f.data[column_name][i] # Zero
          THEN <<[time |-> f.data["time"][i], value |-> f.data[column_name][i]]>>
          ELSE <<>>) \o ValueRows(f, column_name, i + 1)

to_value_data(f, column_name) ==
    IF column_name \notin Columns(f) THEN None
    ELSE List(ValueRows(f, column_name, 1))

\* variant: the SMA column is used only when the MA column is absent
MaField_WhenAbsent(f, p) ==
    IF to_value_data(f, ColName("MA", p)).none
    THEN to_value_data(f, ColName("SMA", p))
    ELSE to_value_data(f, ColName("MA", p))

\* to_value_data('MA5') or to_value_data('SMA5')
MaField(f, p) ==
    Or(to_value_data(f, ColName("MA", p)), to_value_data(f, ColName("SMA", p)))

\* to_value_data(c) or []
Series(f, c) == Or(to_value_data(f, c), List(<<>>)).list

MACDData(f) ==
    [macd |-> Series(f, "MACD"), signal |-> Series(f, "MACD_signal"),
     histogram |-> Series(f, "MACD_hist")]
KDJData(f) == [k |-> Series(f, "K"), d |-> Series(f, "D"), j |-> Series(f, "J")]
BOLLData(f) ==
    [upper |-> Series(f, "BOLL_upper"), middle |-> Series(f, "BOLL_middle"),
     lower |-> Series(f, "BOLL_lower")]

\* an optional nested model: None when its first column is absent
Nested(f, column_name, model) ==
    IF column_name \in Columns(f) THEN [none |-> FALSE, data |-> model]
    ELSE [none |-> TRUE, data |-> <<>>]

CandleData(f, i) ==
    [time |-> f.data["time"][i], open |-> f.data["open"][i],
     high |-> f.data["high"][i], low |-> f.data["low"][i],
     close |-> f.data["close"][i]]

VolumeData(f, i) ==
    [time |-> f.data["time"][i], value |-> f.data["vol"][i],
     color |-> IF ~RLess(f.data["close"][i], f.data["open"][i])
               THEN "#ef535080" ELSE "#26a69a80"]

_build_response(f, symbol) ==
    [symbol |-> symbol,
     candlestick |-> [i \in 1..NRows(f) |-> CandleData(f, i)],
     volume |-> [i \in 1..NRows(f) |-> VolumeData(f, i)],
     sma5 |-> MaField(f, 5), sma10 |-> MaField(f, 10),
     sma20 |-> MaField(f, 20), sma60 |-> MaField(f, 60),
     macd |-> Nested(f, "MACD", MACDData(f)),
     kdj |-> Nested(f, "K", KDJData(f)),
     rsi |-> to_value_data(f, "RSI"),
     boll |-> Nested(f, "BOLL_upper", BOLLData(f))]

\* the dict of the indicators-only response: "macd", "kdj" and "boll" are
\* keys only when their first column is in the frame
OptionalKey(f, column_name, key, model) ==
    IF column_name \in Columns(f) THEN key :> [none |-> FALSE, data |-> model]
    ELSE [k \in {} |-> None]

_build_indicators_only_response(f, symbol) ==
    [symbol |-> symbol,
     sma5 |-> MaField(f, 5), sma10 |-> MaField(f, 10),
     sma20 |-> MaField(f, 20), sma60 |-> MaField(f, 60),
     rsi |-> to_value_data(f, "RSI")]
    @@ OptionalKey(f, "MACD", "macd", MACDData(f))
    @@ OptionalKey(f, "K", "kdj", KDJData(f))
    @@ OptionalKey(f, "BOLL_upper", "boll", BOLLData(f))

\* services/indicator_service.py: the default indicators, NaN written as 0
RECURSIVE SmaColumns(_, _)
SmaColumns(f, periods) ==
    IF periods = <<>> THEN f
    ELSE SmaColumns(SetCol(f, ColName("SMA", Head(periods)),
                           TalibSMA(f.data["close"], Head(periods))),
                    Tail(periods))

add_all_indicators(f) ==
    FillNa(calculate_bollinger_bands(
             calculate_rsi(
               calculate_kdj(
                 calculate_macd(SmaColumns(f, <<5, 10, 20, 60>>), 12, 26, 9),
                 9, 3, 3),
               14),
             20, R(2), R(2)))

\* IndicatorParser.parse as a function of its argument
RECURSIVE ParseLoop(_, _)
ParseLoop(parts, reqs) ==
    IF parts = <<>> THEN Returned(reqs)
    ELSE IF Strip(Head(parts)) = "" THEN ParseLoop(Tail(parts), reqs)
    ELSE IF ParseClause(Strip(Head(parts))).ok
         THEN ParseLoop(Tail(parts),
                        AppendRequest(reqs, ParseClause(Strip(Head(parts))).value))
         ELSE Raised(ParseClause(Strip(Head(parts))).message)

parse(s) == IF IsBlank(s) THEN Returned(<<>>) ELSE ParseLoop(IndicatorParts(s), <<>>)

\* what a raising calculation raises: ValueError for an MA type outside
\* sma/ema/wma, else the Exception of the TA-Lib call
CalculationError(request) ==
    IF /\ request.indicator_id = "ma"
       /\ Lower(Get(request.parameters, "ma_type", "sma")) \notin {"sma", "ema", "wma"}
    THEN Raised("Unknown MA type: " \o Lower(Get(request.parameters, "ma_type", "sma")))
    ELSE [kind |-> "Exception",
          message |-> "function failed with error code 2: Bad Parameter (TA_BAD_PARAM)"]

\* IndicatorCalculator.calculate as a function of its arguments
RECURSIVE CalculateLoop(_, _)
CalculateLoop(f, reqs) ==
    IF reqs = <<>> THEN Returned(FillNa(f))
    ELSE IF Raises(Head(reqs)) THEN CalculationError(Head(reqs))
    ELSE CalculateLoop(ApplyOne(f, Head(reqs)), Tail(reqs))

calculate(f, reqs) == CalculateLoop(f, reqs)

\* DataFrame.rename(columns={a: b})
Rename(f, a, b) ==
    [cols |-> [i \in DOMAIN f.cols |-> IF f.cols[i] = a THEN b ELSE f.cols[i]],
     data |-> [c \in (DOMAIN f.data \ {a}) \cup {b} |->
                 IF c = b THEN f.data[a] ELSE f.data[c]]]

\* "YYYY-MM-DD" strings compared as strings
TimeLeq(a, b) ==
    \/ a[1] < b[1]
    \/ a[1] = b[1] /\ a[2] < b[2]
    \/ a[1] = b[1] /\ a[2] = b[2] /\ a[3] <= b[3]

\* lines 56-59: the rows from start_date to end_date, each bound optional
DateFilter(f, start_date, end_date) ==
    LET keep == SelectSeq([i \in 1..NRows(f) |-> i],
                          LAMBDA i :
                              /\ start_date = <<>> \/ TimeLeq(start_date, f.data["time"][i])
                              /\ end_date = <<>> \/ TimeLeq(f.data["time"][i], end_date))
    IN  [cols |-> f.cols, data |-> [c \in DOMAIN f.data |-> Take(f.data[c], keep)]]

\* lines 65-67 and 115-117: resample under the column name "date"
Aggregated(f, token) == Rename(resample_data(Rename(f, "time", "date"), token), "date", "time")

HTTPException(status_code, detail) ==
    [kind |-> "HTTPException", status_code |-> status_code, detail |-> detail]

\* str(e)
Str(e) ==
    IF e.kind = "HTTPException" THEN ToString(e.status_code) \o ": " \o e.detail
    ELSE e.message

\* lines 75-76 and 124-125: except ValueError -> raise HTTPException(400)
Reraise(e) ==
    IF e.kind = "ValueError"
    THEN HTTPException(400, "Invalid indicators parameter: " \o e.message)
    ELSE e

\* lines 72-76 and 121-125: parse, then calculate, inside the inner try
Calculated(f, p) ==
    IF p.kind = "return" THEN Reraise(calculate(f, p.value)) ELSE Reraise(p)

\* the outcome o of the step before, or the assembler applied to its value
Assembled(o, body) == IF o.kind = "return" THEN Returned(body) ELSE o

\* lines 70-84: the indicators branch of get_stock_data
GetIndicators(f, q) ==
    IF q.indicators # ""
    THEN Assembled(Calculated(f, parse(q.indicators)),
                   _build_response(Calculated(f, parse(q.indicators)).value, q.symbol))
    ELSE Returned(_build_response(add_all_indicators(f), q.symbol))

\* lines 53-84: the body of the outer try of get_stock_data
GetBody(loaded, q) ==
    IF loaded.kind # "return" THEN loaded
    ELSE IF NRows(DateFilter(loaded.value, q.start_date, q.end_date)) = 0
    THEN HTTPException(404, "No data found for the given date range")
    ELSE GetIndicators(Aggregated(DateFilter(loaded.value, q.start_date, q.end_date),
                                  q.interval), q)

\* lines 120-131: the indicators branch of recalculate_indicators
RecalculateIndicatorsOf(f, q) ==
    IF q.indicators # ""
    THEN Assembled(Calculated(f, parse(q.indicators)),
                   _build_indicators_only_response(
                       Calculated(f, parse(q.indicators)).value, q.symbol))
    ELSE HTTPException(400, "indicators parameter is required")

\* lines 112-131: the body of the outer try of recalculate_indicators
RecalculateBody(loaded, q) ==
    IF loaded.kind # "return" THEN loaded
    ELSE RecalculateIndicatorsOf(Aggregated(loaded.value, q.interval), q)

\* the except clauses of the outer try, and what the client receives
Responded(o) ==
    CASE o.kind = "return" -> [status |-> 200, body |-> o.value]
      [] o.kind = "FileNotFoundError" -> [status |-> 404, detail |-> o.message]
      [] OTHER -> [status |-> 500, detail |-> "Internal server error: " \o Str(o)]

get_stock_data(loaded, q) == Responded(GetBody(loaded, q))
recalculate_indicators(loaded, q) == Responded(RecalculateBody(loaded, q))

(***************************************************************************)
(* Requests served by the two routes: a stored daily series or no file,    *)
(* the query parameters, and one step per request.                         *)
(***************************************************************************)
MaxStored == 6  \* longest stored daily series

\* closes of the stored series, day by day from Monday 1 January 2024
StoredCloses == <<5, 4, 3, 4, 6, 5, 7, 6>>

StoredBar(i) ==
    [date  |-> Day(i),
     open  |-> R(StoredCloses[IF i = 1 THEN 1 ELSE i - 1]),
     high  |-> R(StoredCloses[i] + 2),
     low   |-> R(StoredCloses[i] - 2),
     close |-> R(StoredCloses[i]),
     vol   |-> R(10 * i)]

\* what load_stock_data gives: the rows of the CSV file, or no file
Loaded ==
    {Returned(FrameOf([i \in 1..n |-> StoredBar(i)], "time")) : n \in 1..MaxStored}
    \cup {[kind |-> "FileNotFoundError", message |-> "Data file not found: 000155.sz.csv"]}

RouteIndicators ==
    {"", " ", "ma:5", "ma:2,5", "ma:ema:2,3", "rsi:2", "macd:2-3-2", "kdj:2-1-2",
     "boll:2-2.0", "vol:5", "rsi", "kdj:9-3", "ma:1"}

Query(interval_, start_date, end_date, indicators) ==
    [symbol |-> "000155.sz", interval |-> interval_, start_date |-> start_date,
     end_date |-> end_date, indicators |-> indicators]

GetQueries ==
    {Query(t, a, b, s) : t \in SupportedIntervals, a \in {<<>>, Day(2), Day(9)},
                         b \in {<<>>, Day(4)}, s \in RouteIndicators}

RecalculateQueries ==
    {Query(t, <<>>, <<>>, s) : t \in SupportedIntervals, s \in RouteIndicators}

RouteInit ==
    /\ handler \in {"get_stock_data", "recalculate_indicators"}
    /\ stored \in Loaded
    /\ query \in IF handler = "get_stock_data" THEN GetQueries ELSE RecalculateQueries
    /\ response = NoOutcome
    /\ rpc = "ready"
    /\ CalcIdle
    /\ AggIdle
    /\ ParseIdle
    /\ MathIdle

GetStockData ==
    /\ rpc = "ready"
    /\ handler = "get_stock_data"
    /\ response' = get_stock_data(stored, query)
    /\ rpc' = "done"
    /\ UNCHANGED <<handler, stored, query, calcVars, aggVars, parseVars, mathVars>>

RecalculateIndicators ==
    /\ rpc = "ready"
    /\ handler = "recalculate_indicators"
    /\ response' = recalculate_indicators(stored, query)
    /\ rpc' = "done"
    /\ UNCHANGED <<handler, stored, query, calcVars, aggVars, parseVars, mathVars>>

RouteNext == GetStockData \/ RecalculateIndicators

SpecRoute == RouteInit /\ [][RouteNext]_vars

(***************************************************************************)
(* Properties of IndicatorCalculator.calculate (checked under SpecCalc).   *)
(***************************************************************************)
IndicatorColumns(f) == Columns(f) \ Range(BarColumns)

Count(s, x) == Cardinality({i \in DOMAIN s : s[i] = x})

Max(S) == CHOOSE x \in S : \A y \in S : y <= x

\* the column names a request writes
RequestColumns(request) ==
    CASE request.indicator_id = "ma" ->
           {ColName("MA", request.parameters.periods[i]) :
               i \in DOMAIN request.parameters.periods}
      [] request.indicator_id = "macd" -> {"MACD", "MACD_signal", "MACD_hist"}
      [] request.indicator_id = "kdj"  -> {"K", "D", "J"}
      [] request.indicator_id = "rsi"  -> {"RSI"}
      [] request.indicator_id = "boll" -> {"BOLL_upper", "BOLL_middle", "BOLL_lower"}
      [] OTHER -> {}

ExpectedColumns(reqs) == UNION {RequestColumns(reqs[i]) : i \in DOMAIN reqs}

RequestPeriods == \* every MA period of the request list
    UNION {Range(requests[i].parameters.periods) :
              i \in {j \in DOMAIN requests : requests[j].indicator_id = "ma"}}

TypePrefixedColumns ==
    {ColName(pre, p) : pre \in {"SMA", "EMA", "WMA"}, p \in RequestPeriods}

\* positions of the ma requests that ask for period p
MaRequestsWith(p) ==
    {i \in DOMAIN requests :
        /\ requests[i].indicator_id = "ma"
        /\ p \in Range(requests[i].parameters.periods)}

\* the MA column of type t over the input closes, NaN written as 0
MaValues(t, p) ==
    LET raw == CASE t = "sma" -> TalibSMA(df.data["close"], p)
                 [] t = "ema" -> TalibEMA(df.data["close"], p)
                 [] t = "wma" -> TalibWMA(df.data["close"], p)
    IN  [i \in DOMAIN raw |-> IF IsNaN(raw[i]) THEN Zero ELSE raw[i]]

\* C1: when two ma requests share a period p, the returned frame has exactly
\* one column MA{p}, holding the values of the later request's MA type.
C1_LastWriteWins ==
    pc = "done" =>
        \A p \in RequestPeriods :
            Cardinality(MaRequestsWith(p)) >= 2 =>
                /\ Count(result.cols, ColName("MA", p)) = 1
                /\ result.data[ColName("MA", p)] =
                      MaValues(requests[Max(MaRequestsWith(p))].parameters.ma_type, p)

\* two ma requests of different types share a period, and the earlier
\* type's values differ from the ones returned
C1_Witness ==
    /\ pc = "done"
    /\ \E p \in RequestPeriods : \E i, j \in MaRequestsWith(p) :
          /\ i < j
          /\ requests[i].parameters.ma_type # requests[j].parameters.ma_type
          /\ result.data[ColName("MA", p)] # MaValues(requests[i].parameters.ma_type, p)

\* C2: the columns calculate adds are exactly the documented names of the
\* requests (MA{p} for every ma period, whatever the type); no SMA{p}, EMA{p}
\* or WMA{p} column remains.
C2_ColumnNames ==
    pc = "done" =>
        /\ IndicatorColumns(result) = ExpectedColumns(requests)
        /\ Columns(result) \cap TypePrefixedColumns = {}

C2_Witness ==
    /\ pc = "done"
    /\ \E i, j \in DOMAIN requests :
          /\ requests[i].indicator_id = "ma"
          /\ requests[i].parameters.ma_type = "ema"
          /\ Len(requests[i].parameters.periods) = 2
          /\ requests[j].indicator_id # "ma"
    /\ {"MA2", "MA3"} \subseteq Columns(result)

\* C3: NaN is replaced by 0 once, by the step that returns: while requests
\* are being applied the leading warm-up cell of every MA, MACD, RSI and BOLL
\* column is still NaN; the returning step turns every NaN cell into 0, keeps
\* every other cell, and leaves no NaN in an indicator column.
C3_LoopKeepsNaN ==
    pc = "loop" =>
        \A c \in IndicatorColumns(result) \ {"K", "D", "J"} :
            IsNaN(result.data[c][1])

C3_FinishFills ==
    pc' = "done" =>
        /\ IndicatorColumns(result') = IndicatorColumns(result)
        /\ \A c \in IndicatorColumns(result') : \A i \in DOMAIN result'.data[c] :
              /\ ~IsNaN(result'.data[c][i])
              /\ result'.data[c][i] =
                    IF IsNaN(result.data[c][i]) THEN Zero ELSE result.data[c][i]

C3_NaNReplacedAtEnd == [][C3_FinishFills]_vars /\ []C3_LoopKeepsNaN

\* a returned column with a zeroed warm-up cell and a non-zero computed cell
C3_Witness ==
    /\ pc = "done"
    /\ \E c \in IndicatorColumns(result) : \E i \in DOMAIN result.data[c] :
          /\ result.data[c][1] = Zero
          /\ result.data[c][i] # Zero

\* C4: requests are applied in list order and columns are never removed:
\* after k requests the frame holds the input columns and the columns of the
\* first k requests, and every step keeps all columns it found.
C4_PrefixColumns ==
    pc = "loop" =>
        Columns(result) =
            Columns(df) \cup ExpectedColumns(SubSeq(requests, 1, idx))

C4_StepKeepsColumns ==
    pc' # "error" => Columns(result) \subseteq Columns(result')

C4_ColumnsOnlyGrow == [][C4_StepKeepsColumns]_vars /\ []C4_PrefixColumns

C4_Witness ==
    /\ pc = "done"
    /\ Len(requests) >= 2
    /\ RequestColumns(requests[1]) \cap RequestColumns(requests[2]) = {}
    /\ RequestColumns(requests[1]) \cup RequestColumns(requests[2])
          \subseteq Columns(result)

\* C5: the returned frame has the input's rows and its bar columns hold the
\* input's values, NaN cells included; the input frame is unchanged.
C5_BarDataUnchanged ==
    pc = "done" =>
        \A c \in Range(BarColumns) : result.data[c] = df.data[c]

\* C6: an empty request list returns the input's columns and nothing else.
C6_EmptyRequests ==
    (pc = "done" /\ requests = <<>>) =>
        /\ result.cols = df.cols
        /\ IndicatorColumns(result) = {}

C6_Witness == pc = "done" /\ requests = <<>> /\ NRows(result) = MaxBars

\* the requests of one fixed-name kind, and the columns of a request
\* computed on the input bars with NaN written as 0
FixedKinds == {"rsi", "macd", "kdj", "boll"}
RequestsOfKind(kind) == {i \in DOMAIN requests : requests[i].indicator_id = kind}
ValuesOf(request, c) == FillNa(ApplyOne(df, request)).data[c]

\* C28: when two requests of the same kind among rsi, macd, kdj, boll are
\* in the list, calculate returns without error one set of that kind's
\* columns, holding the values of the later request; no other column is
\* added.
C28_FixedNamesLastWins ==
    /\ pc = "done" =>
          \A kind \in FixedKinds :
              Cardinality(RequestsOfKind(kind)) >= 2 =>
                  /\ \A c \in RequestColumns(requests[Max(RequestsOfKind(kind))]) :
                        /\ Count(result.cols, c) = 1
                        /\ result.data[c] =
                              ValuesOf(requests[Max(RequestsOfKind(kind))], c)
                  /\ IndicatorColumns(result) = ExpectedColumns(requests)
    /\ pc = "error" => \E i \in DOMAIN requests : Raises(requests[i])

\* rsi with period 2 and then with period 3: the period-2 values are gone
C28_Witness ==
    /\ pc = "done"
    /\ requests = <<RsiRequest(2), RsiRequest(3)>>
    /\ result.data["RSI"] # ValuesOf(RsiRequest(2), "RSI")
    /\ result.data["RSI"] = ValuesOf(RsiRequest(3), "RSI")

KnownRequest(r) == r.indicator_id \in {"ma", "kdj", "macd", "rsi", "boll"}
KnownOf(reqs) == {i \in DOMAIN reqs : KnownRequest(reqs[i])}

\* C29: a request whose id is not one of the five lower-case ids is
\* skipped: its step raises nothing and leaves the frame as it was, so the
\* returned frame has the columns of the other requests only.
C29_SkipState ==
    /\ pc = "done" =>
          IndicatorColumns(result) =
              UNION {RequestColumns(requests[i]) : i \in KnownOf(requests)}
    /\ pc = "error" =>
          /\ idx + 1 \in DOMAIN requests
          /\ KnownRequest(requests[idx + 1])

C29_SkipStep ==
    (pc = "loop" /\ idx + 1 \in DOMAIN requests /\ ~KnownRequest(requests[idx + 1]))
        => (pc' = "loop" /\ idx' = idx + 1 /\ result' = result)

C29_UnknownSkipped == [][C29_SkipStep]_vars /\ []C29_SkipState

\* the id "RSI" in upper case between two known requests
C29_Witness ==
    /\ pc = "done"
    /\ Len(requests) = MaxReqs
    /\ requests[1] = UnknownRequest
    /\ requests[2] = RsiRequest(2)
    /\ IndicatorColumns(result) = {"RSI"}

(***************************************************************************)
(* Properties of TimeframeService.resample_data (checked under SpecAgg).   *)
(* The calendar below works on <<year, month, day>> directly.              *)
(***************************************************************************)
LastDayOfMonth(y, m) ==
    IF m = 2
    THEN IF y % 4 = 0 /\ (y % 100 # 0 \/ y % 400 = 0) THEN 29 ELSE 28
    ELSE 30 + ((m + (m \div 8)) % 2)

NextDay(d) ==
    IF d[3] < LastDayOfMonth(d[1], d[2]) THEN <<d[1], d[2], d[3] + 1>>
    ELSE IF d[2] < 12 THEN <<d[1], d[2] + 1, 1>>
    ELSE <<d[1] + 1, 1, 1>>

\* Zeller's congruence: 0 = Saturday, 1 = Sunday, ..., 6 = Friday
Zeller(d) ==
    LET m == IF d[2] <= 2 THEN d[2] + 12 ELSE d[2]
        y == IF d[2] <= 2 THEN d[1] - 1 ELSE d[1]
    IN  (d[3] + (13 * (m + 1)) \div 5 + (y % 100) + (y % 100) \div 4
           + (y \div 100) \div 4 + 5 * (y \div 100)) % 7

RECURSIVE FridayOnOrAfter(_)
FridayOnOrAfter(d) == IF Zeller(d) = 6 THEN d ELSE FridayOnOrAfter(NextDay(d))

DateLess(a, b) ==
    \/ a[1] < b[1]
    \/ a[1] = b[1] /\ a[2] < b[2]
    \/ a[1] = b[1] /\ a[2] = b[2] /\ a[3] < b[3]

InDates == bars.data["date"]

\* per input bar: the Friday closing its Saturday-to-Friday week, and the
\* last calendar day of its month
WeekKeys == [i \in DOMAIN InDates |-> FridayOnOrAfter(InDates[i])]
MonthKeys ==
    [i \in DOMAIN InDates |->
        <<InDates[i][1], InDates[i][2], LastDayOfMonth(InDates[i][1], InDates[i][2])>>]

BucketKeys == IF interval = "weekly" THEN WeekKeys ELSE MonthKeys

\* the input rows that start a bucket, and the rows of the bucket of row i
FirstRows(keys) ==
    SelectSeq([i \in DOMAIN keys |-> i], LAMBDA i : i = 1 \/ keys[i] # keys[i - 1])
Members(keys, key) == {i \in DOMAIN keys : keys[i] = key}

InCells(c, rowset) == {bars.data[c][i] : i \in rowset}
SetMax(S) == CHOOSE x \in S : \A y \in S : ~RLess(x, y)
SetMin(S) == CHOOSE x \in S : \A y \in S : ~RLess(y, x)
Min(S) == CHOOSE x \in S : \A y \in S : x <= y

RECURSIVE VolOf(_)
VolOf(rowset) ==
    IF rowset = {} THEN Zero
    ELSE LET i == CHOOSE j \in rowset : TRUE
         IN  RAdd(bars.data["vol"][i], VolOf(rowset \ {i}))

OutRows == DOMAIN out.data["date"]

\* the output has one bar per bucket of keys, in order, dated by dateOf
\* applied to the bucket's first input row and carrying the bucket's volume
BucketsAre(keys, dateOf(_)) ==
    /\ Len(out.data["date"]) = Len(FirstRows(keys))
    /\ \A k \in OutRows :
          /\ out.data["date"][k] = dateOf(FirstRows(keys)[k])
          /\ out.data["vol"][k] = VolOf(Members(keys, keys[FirstRows(keys)[k]]))

\* the closing date as first stated: the Friday, or the last input date when
\* the series ends before that Friday
StatedClose(i) ==
    IF DateLess(InDates[Len(InDates)], WeekKeys[i])
    THEN InDates[Len(InDates)]
    ELSE WeekKeys[i]

\* C7 as stated: weekly buckets are the Saturday-to-Friday weeks and each
\* output bar is dated with its closing Friday, or with the series' last date
\* when the series ends before that Friday.
C7_WeeklyAsStated ==
    (apc = "done" /\ interval = "weekly") =>
        BucketsAre(WeekKeys, LAMBDA i : StatedClose(i))

\* C7 amended: weekly buckets are the Saturday-to-Friday weeks and each
\* output bar is dated with the first Friday at or after its first bar's
\* date, also when the series ends before that Friday.
C7_WeeklyBuckets ==
    (apc = "done" /\ interval = "weekly") =>
        BucketsAre(WeekKeys, LAMBDA i : WeekKeys[i])

\* a Friday and the following Saturday fall into different buckets, and
\* the last bucket is dated after the last input bar
C7_Witness ==
    /\ apc = "done"
    /\ interval = "weekly"
    /\ \E i \in DOMAIN InDates :
          /\ i + 1 \in DOMAIN InDates
          /\ InDates[i] = <<2024, 1, 26>>
          /\ InDates[i + 1] = <<2024, 1, 27>>
    /\ Len(out.data["date"]) = 2
    /\ DateLess(InDates[Len(InDates)], out.data["date"][2])

C10_MonthlyBuckets ==
    (apc = "done" /\ interval = "monthly") =>
        BucketsAre(MonthKeys, LAMBDA i : MonthKeys[i])

\* February of a leap year whose last bar is the 28th, and the same month
\* of two different years
C10_Witness ==
    /\ apc = "done"
    /\ interval = "monthly"
    /\ \E k \in OutRows :
          /\ out.data["date"][k] = <<2024, 2, 29>>
          /\ \A i \in DOMAIN InDates : InDates[i] # <<2024, 2, 29>>
    /\ \E j, k \in OutRows :
          /\ out.data["date"][j] = <<2024, 1, 31>>
          /\ out.data["date"][k] = <<2025, 1, 31>>

\* C11: for a supported interval the returned series has strictly
\* increasing dates: ascending, and no two output bars share a date.
C11_StrictlyIncreasing ==
    apc = "done" =>
        \A k \in OutRows :
            k + 1 \in OutRows => DateLess(out.data["date"][k], out.data["date"][k + 1])

\* three input bars aggregated into two bars of the same month
C11_Witness ==
    /\ apc = "done"
    /\ interval = "weekly"
    /\ Len(InDates) = 3
    /\ Len(out.data["date"]) = 2
    /\ out.data["date"][1][2] = out.data["date"][2][2]

\* C12: with interval "daily" the returned series is the input series:
\* the same bars, values and order, nothing added, dropped or re-dated.
C12_DailyIdentity ==
    (apc = "done" /\ interval = "daily") => out = bars

\* a series that is already weekly (Fridays only, one week missing)
C12_Witness ==
    /\ apc = "done"
    /\ interval = "daily"
    /\ InDates = << <<2024, 1, 26>>, <<2024, 2, 2>>, <<2024, 2, 16>> >>
    /\ out.data["date"] = InDates

\* C13: every token other than "daily", "weekly" and "monthly" makes
\* resample_data raise, and then no series is returned; the three tokens
\* never raise.
C13_UnsupportedInterval ==
    /\ apc = "error" =>
          /\ interval \notin {"daily", "weekly", "monthly"}
          /\ out = EmptyFrame
    /\ apc = "done" => interval \in {"daily", "weekly", "monthly"}

\* the call with the token "Weekly" or with the empty token has raised
C13_Witness ==
    /\ apc = "error"
    /\ interval \in {"Weekly", ""}
    /\ bars # EmptyFrame
    /\ out = EmptyFrame

(***************************************************************************)
(* Properties of IndicatorParser.parse (checked under SpecParse).          *)
(***************************************************************************)
\* sub occurs in s
Within(s, sub) ==
    \E i \in 1..(Len(s) - Len(sub) + 1) : SubSeq(s, i, i + Len(sub) - 1) = sub

\* the split has been done
HasSplit == ppc \in {"loop", "done", "error"} /\ ~IsBlank(indicators_str)

\* the separator of this call as stated: ";" if written anywhere, else "|"
StatedSeparator == IF Contains(indicators_str, ";") THEN ";" ELSE "|"

\* the clauses: the parts that are not blank, stripped, in order
IsClause(i) == Strip(indicator_parts[i]) # ""
Clause(i) == Strip(indicator_parts[i])
ClausesUpTo(n) == {i \in 1..n : IsClause(i)}

\* the parts the loop has gone through without raising, the request built
\* for such a clause, and the part that made parse raise
Processed == {i \in 1..part_idx : IsClause(i)}
RequestOf(i) == parsed[Cardinality(ClausesUpTo(i))]
Failed == IF ppc = "error" THEN {part_idx + 1} ELSE {}

\* id and parameter text of a clause as written: around the first ":"
WrittenId(i) == StrLower(Strip(SplitOnce(Clause(i), ":")[1]))
WrittenParams(i) == Strip(SplitOnce(Clause(i), ":")[2])
Fields(i) == Split(WrittenParams(i), "-")

\* C14: one separator per call: the parts joined by ";" (if the string has
\* a ";") or else by "|" give back the string, and no part contains that
\* separator; so with a ";" present every "|" stays inside a part.
C14_OneSeparator ==
    HasSplit =>
        /\ Join(indicator_parts, StatedSeparator) = indicators_str
        /\ \A i \in 1..Len(indicator_parts) :
              ~Contains(indicator_parts[i], StatedSeparator)

\* a string with both separators: two parts, the "|" inside the first
C14_Witness ==
    /\ HasSplit
    /\ indicators_str = "rsi:14|rsi:6;kdj:9-3-3"
    /\ indicator_parts = <<"rsi:14|rsi:6", "kdj:9-3-3">>
    /\ ppc = "error"

\* C15: a successful parse returns one request per clause, in the order of
\* the clauses: the k-th request is the one of the k-th non-blank part.
C15_OnePerClauseInOrder ==
    (ppc = "done" /\ HasSplit) =>
        /\ outcome.kind = "return"
        /\ Len(outcome.value) = Cardinality(ClausesUpTo(Len(indicator_parts)))
        /\ \A i \in ClausesUpTo(Len(indicator_parts)) :
              LET r == outcome.value[Cardinality(ClausesUpTo(i))]
              IN  /\ r.indicator_id = WrittenId(i)
                  /\ Returns(r) = ParseClause(Clause(i))

\* the documented example, and the same clause written twice
C15_Witness ==
    \/ /\ indicators_str = "kdj:9-3-3;rsi:14"
       /\ outcome = Returned(<<KdjRequest(9, 3, 3), RsiRequest(14)>>)
    \/ /\ indicators_str = "rsi:14|rsi:14"
       /\ outcome = Returned(<<RsiRequest(14), RsiRequest(14)>>)

\* an ma clause's type and period texts as written: around the first ":"
\* of the parameter text when there is one
MaIsTyped(i) == Contains(WrittenParams(i), ":")
MaWrittenType(i) == StrLower(Strip(SplitOnce(WrittenParams(i), ":")[1]))
MaWrittenPeriods(i) ==
    LET txt == IF MaIsTyped(i) THEN SplitOnce(WrittenParams(i), ":")[2]
               ELSE WrittenParams(i)
    IN  [k \in 1..Len(Split(txt, ",")) |-> IntValue(Strip(Split(txt, ",")[k]))]

IsMaClause(i) == IsClause(i) /\ Contains(Clause(i), ":") /\ WrittenId(i) = "ma"

\* C16: an ma clause is `type:p1,p2,...` or bare `p1,p2,...`: the bare form
\* gives ma_type sma, the typed form the lower-cased type if it is sma, ema
\* or wma in any letter case and an invalid-MA-type error otherwise; periods
\* are the comma-separated integers in written order.
C16_MaForms ==
    HasSplit =>
        /\ \A i \in Processed : IsMaClause(i) =>
              /\ RequestOf(i).parameters.ma_type =
                    (IF MaIsTyped(i) THEN MaWrittenType(i) ELSE "sma")
              /\ RequestOf(i).parameters.ma_type \in {"sma", "ema", "wma"}
              /\ RequestOf(i).parameters.periods = MaWrittenPeriods(i)
        /\ \A i \in Failed : IsMaClause(i) =>
              (Within(outcome.message, "Unknown MA type")
                  <=> (MaIsTyped(i) /\ MaWrittenType(i) \notin {"sma", "ema", "wma"}))

\* a typed clause in upper case with blanks around a period, then a bare
\* clause
C16_Witness ==
    /\ indicators_str = "ma:EMA: 12 ,26;ma:5,20"
    /\ outcome = Returned(<<MaRequest("ema", <<12, 26>>), MaRequest("sma", <<5, 20>>)>>)

\* every period of a request, and its multipliers
PeriodsOf(r) ==
    CASE r.indicator_id = "ma"   -> Range(r.parameters.periods)
      [] r.indicator_id = "kdj"  -> {r.parameters.fastk_period,
                                     r.parameters.slowk_period,
                                     r.parameters.slowd_period}
      [] r.indicator_id = "macd" -> {r.parameters.fast_period,
                                     r.parameters.slow_period,
                                     r.parameters.signal_period}
      [] OTHER -> {r.parameters.period}
MultipliersOf(r) ==
    IF r.indicator_id = "boll"
    THEN {r.parameters.nbdev_up, r.parameters.nbdev_down} ELSE {}

\* C17: every request parse returns has periods >= 1 and multipliers >= 0;
\* a clause with a zero or negative period makes parse fail.
C17_RangesEnforced ==
    ppc = "done" =>
        \A k \in 1..Len(outcome.value) :
            /\ \A p \in PeriodsOf(outcome.value[k]) : p >= 1
            /\ \A m \in MultipliersOf(outcome.value[k]) : ~RLess(m, Zero)

IsArity3Clause(i) ==
    IsClause(i) /\ Contains(Clause(i), ":") /\ WrittenId(i) \in {"kdj", "macd"}

\* C18: a kdj or macd clause succeeds only with exactly three "-"-separated
\* fields, assigned in order to fastk/slowk/slowd or fast/slow/signal; with
\* any other number of fields parse fails saying 3 parameters are required.
C18_ArityThree ==
    HasSplit =>
        /\ \A i \in Processed : IsArity3Clause(i) =>
              /\ Len(Fields(i)) = 3
              /\ RequestOf(i).parameters =
                    IF WrittenId(i) = "kdj"
                    THEN [fastk_period |-> IntValue(Fields(i)[1]),
                          slowk_period |-> IntValue(Fields(i)[2]),
                          slowd_period |-> IntValue(Fields(i)[3])]
                    ELSE [fast_period |-> IntValue(Fields(i)[1]),
                          slow_period |-> IntValue(Fields(i)[2]),
                          signal_period |-> IntValue(Fields(i)[3])]
        /\ \A i \in Failed : IsArity3Clause(i) =>
              (Within(outcome.message, "requires 3 parameters")
                  <=> Len(Fields(i)) # 3)

\* a kdj clause with three fields followed by a macd clause with four
C18_Witness ==
    /\ indicators_str = "kdj:9-3-3;macd:12-26-9-1"
    /\ parsed = <<KdjRequest(9, 3, 3)>>
    /\ ppc = "error"
    /\ Within(outcome.message, "MACD requires 3 parameters")

IsBollClause(i) == IsClause(i) /\ Contains(Clause(i), ":") /\ WrittenId(i) = "boll"

\* C19: a boll clause needs at least two "-"-separated fields; the request
\* has period = first field and both multipliers = second field, whatever
\* is written after the second field.
C19_BollFields ==
    HasSplit =>
        /\ \A i \in Processed : IsBollClause(i) =>
              /\ Len(Fields(i)) >= 2
              /\ RequestOf(i).parameters =
                    [period |-> IntValue(Fields(i)[1]),
                     nbdev_up |-> FloatValue(Fields(i)[2]),
                     nbdev_down |-> FloatValue(Fields(i)[2])]
        /\ \A i \in Failed : IsBollClause(i) =>
              (Within(outcome.message, "BOLL requires at least 2 parameters")
                  <=> Len(Fields(i)) < 2)

\* a clause with a third field, then a clause with one field
C19_Witness ==
    /\ indicators_str = "boll:20-1.5-7;boll:20"
    /\ parsed = <<BollRequest(20, <<3, 2>>)>>
    /\ ppc = "error"
    /\ Within(outcome.message, "BOLL requires at least 2 parameters")

KnownIds == {"ma", "kdj", "macd", "rsi", "boll"}

\* C20: the id is matched ignoring case and surrounding whitespace, the
\* request stores it in lower case, and any other id makes parse fail with
\* an unknown-indicator message naming the id.
C20_IndicatorId ==
    HasSplit =>
        /\ \A i \in Processed :
              /\ Contains(Clause(i), ":")
              /\ WrittenId(i) \in KnownIds
              /\ RequestOf(i).indicator_id = WrittenId(i)
        /\ \A i \in Failed : Contains(Clause(i), ":") =>
              IF WrittenId(i) \in KnownIds
              THEN ~Within(outcome.message, "Unknown indicator")
              ELSE Within(outcome.message, "Unknown indicator: " \o WrittenId(i))

\* an id in upper case with blanks around it, then an unknown id
C20_Witness ==
    /\ indicators_str = " KDJ :0-3-3;Vol:5"
    /\ parsed = <<KdjRequest(0, 3, 3)>>
    /\ ppc = "error"
    /\ Within(outcome.message, "Unknown indicator: vol")

\* the id and the parameter text of a clause that failed: around its first
\* ":", or the whole clause and nothing when it has no ":"
FailedId(i) ==
    IF Contains(Clause(i), ":") THEN WrittenId(i) ELSE StrLower(Clause(i))
FailedParams(i) == IF Contains(Clause(i), ":") THEN WrittenParams(i) ELSE ""

\* C21: every failure caused by a clause is the same kind of error and its
\* message is wrapped with the clause's indicator id and parameter text.
C21_WrappedDiagnostics ==
    ppc = "error" =>
        /\ outcome.kind = "ValueError"
        /\ \A i \in Failed :
              Within(outcome.message,
                     "Failed to parse " \o FailedId(i) \o " parameters '"
                        \o FailedParams(i) \o "'")

AllWhitespace(s) == \A i \in 1..Len(s) : Char(s, i) \in Whitespace

\* C22: for the empty string and for a string of whitespace only, parse
\* returns the empty list and does not raise.
C22_BlankGivesEmptyList ==
    (AllWhitespace(indicators_str) /\ ppc \notin {"idle", "start"}) =>
        /\ ppc = "done"
        /\ outcome = Returned(<<>>)

\* the call on a string of a blank, a tab and a newline has returned
C22_Witness ==
    /\ indicators_str = " \t\n"
    /\ ppc = "done"
    /\ outcome = Returned(<<>>)

\* the clauses that are malformed
Malformed == {i \in ClausesUpTo(Len(indicator_parts)) : ~ParseClause(Clause(i)).ok}

\* C27: parse stops at the first malformed clause, raises that clause's
\* error and returns no list; it returns a list only when no clause is
\* malformed, and after raising it takes no further step.
C27_StopsAtFirst ==
    /\ (HasSplit /\ ppc = "error") =>
          /\ outcome.kind = "ValueError"
          /\ part_idx + 1 \in Malformed
          /\ \A i \in Malformed : i >= part_idx + 1
          /\ outcome.message = ParseClause(Clause(part_idx + 1)).message
    /\ (HasSplit /\ ppc = "done") => Malformed = {}
    /\ (HasSplit /\ ppc = "loop") =>
          /\ outcome = NoOutcome
          /\ \A i \in Malformed : i > part_idx

C27_Final == ppc = "error" => (ppc' = "error" /\ outcome' = outcome)

C27_FailFastAtomic == [][C27_Final]_vars /\ []C27_StopsAtFirst

\* a valid clause was built before the second one failed
C27_Witness ==
    /\ ppc = "error"
    /\ Len(parsed) = 1
    /\ indicators_str = "kdj:9-3-3;macd:12-26-9-1"
    /\ outcome.kind = "ValueError"


(***************************************************************************)
(* Properties of calculate_macd and calculate_sma (checked under SpecMath).*)
(***************************************************************************)
Twice(x) == RMul(R(2), x)

\* C25: at every index where the MACD outputs are defined, MACD_hist is
\* twice the difference of MACD and MACD_signal.
C25_HistIsTwiceDifference ==
    (math_pc = "done" /\ math_call.fn = "calculate_macd") =>
        \A i \in 1..NRows(math_ret) :
            ~IsNaN(math_ret.data["MACD_hist"][i]) =>
                math_ret.data["MACD_hist"][i] =
                    Twice(RSub(math_ret.data["MACD"][i],
                               math_ret.data["MACD_signal"][i]))

\* C26: calculate_sma with any period >= 1 does not fail, and returns a
\* column as long as the closes whose first min(n, period - 1) cells are NaN
\* and whose later cells are the mean of the trailing `period` closes.
C26_SmaEveryPeriod ==
    (math_call.fn = "calculate_sma" /\ math_call.period >= 1) =>
        /\ math_pc # "error"
        /\ math_pc = "done" =>
              /\ Len(math_ret.data[ColName("SMA", math_call.period)]) = NRows(math_df)
              /\ \A i \in 1..NRows(math_df) :
                    math_ret.data[ColName("SMA", math_call.period)][i] =
                        IF i <= math_call.period - 1 THEN NaN
                        ELSE RDiv(RSum(SubSeq(math_df.data["close"],
                                              i - math_call.period + 1, i)),
                                  R(math_call.period))


(***************************************************************************)
(* Properties of the routes and the response assemblers (checked under     *)
(* SpecRoute).                                                             *)
(***************************************************************************)
\* the request got as far as the indicators parameter
ReachedIndicators ==
    /\ stored.kind = "return"
    /\ handler = "get_stock_data" =>
          NRows(DateFilter(stored.value, query.start_date, query.end_date)) > 0
    /\ query.indicators # ""

\* what the body of the handler's try block ended with
BodyOutcome ==
    IF handler = "get_stock_data" THEN GetBody(stored, query)
    ELSE RecalculateBody(stored, query)

\* C23: a parse error of the indicators parameter reaches the client as
\* status 400 with the parser's message; status 500 is given only to
\* failures other than parse and not-found errors; an HTTP client error
\* raised inside the handler leaves it with its own status.
C23_ParseErrorIsClientError ==
    rpc = "done" =>
        /\ (ReachedIndicators /\ parse(query.indicators).kind = "ValueError") =>
              /\ response.status = 400
              /\ Within(parse(query.indicators).message, response.detail)
        /\ response.status = 500 =>
              /\ ReachedIndicators
              /\ parse(query.indicators).kind = "return"
        /\ BodyOutcome.kind = "HTTPException" =>
              response.status = BodyOutcome.status_code

\* the frame handed to the response assembler
DatedRows ==
    IF handler = "get_stock_data"
    THEN DateFilter(stored.value, query.start_date, query.end_date)
    ELSE stored.value

ServedFrame ==
    IF query.indicators = ""
    THEN add_all_indicators(Aggregated(DatedRows, query.interval))
    ELSE Calculated(Aggregated(DatedRows, query.interval), parse(query.indicators)).value

\* the points of column c whose value is not 0, in row order
NonZeroRows(f, c) ==
    SelectSeq([i \in 1..NRows(f) |-> i], LAMBDA i : f.data[c][i] # Zero)

NonZeroPoints(f, c) ==
    [k \in DOMAIN NonZeroRows(f, c) |->
        [time |-> f.data["time"][NonZeroRows(f, c)[k]],
         value |-> f.data[c][NonZeroRows(f, c)[k]]]]

\* the series the response gives for a fixed-name column
FieldSeries(c) ==
    CASE c = "RSI"         -> response.body.rsi.list
      [] c = "MACD"        -> response.body.macd.data.macd
      [] c = "MACD_signal" -> response.body.macd.data.signal
      [] c = "MACD_hist"   -> response.body.macd.data.histogram
      [] c = "K"           -> response.body.kdj.data.k
      [] c = "D"           -> response.body.kdj.data.d
      [] c = "J"           -> response.body.kdj.data.j
      [] c = "BOLL_upper"  -> response.body.boll.data.upper
      [] c = "BOLL_middle" -> response.body.boll.data.middle
      [] c = "BOLL_lower"  -> response.body.boll.data.lower

FixedColumns ==
    {"RSI", "MACD", "MACD_signal", "MACD_hist", "K", "D", "J",
     "BOLL_upper", "BOLL_middle", "BOLL_lower"}

ExposedPeriods == {5, 10, 20, 60}

SmaField(p) ==
    CASE p = 5  -> response.body.sma5
      [] p = 10 -> response.body.sma10
      [] p = 20 -> response.body.sma20
      [] p = 60 -> response.body.sma60

\* C24: the series of every indicator column of the calculated frame holds
\* exactly the points of the rows whose value is not 0, in row order: zero
\* points are dropped, computed or not, and no other point is.
C24_SeriesDropZeros ==
    (rpc = "done" /\ response.status = 200) =>
        /\ \A c \in FixedColumns \cap Columns(ServedFrame) :
              FieldSeries(c) = NonZeroPoints(ServedFrame, c)
        /\ \A p \in ExposedPeriods :
              \A c \in {ColName("MA", p), ColName("SMA", p)} \cap Columns(ServedFrame) :
                  NonZeroPoints(ServedFrame, c) # <<>> =>
                      SmaField(p).list = NonZeroPoints(ServedFrame, c)

\* rsi:2 on the stored closes 5, 4, 3, ...: the RSI of the third day is a
\* computed 0 and is dropped with the two warm-up days
C24_Witness ==
    /\ rpc = "done"
    /\ response.status = 200
    /\ query.indicators = "rsi:2"
    /\ NRows(ServedFrame) = MaxStored
    /\ ServedFrame.data["RSI"][3] = Zero
    /\ Len(response.body.rsi.list) = MaxStored - 3
    /\ response.body.rsi.list[1].time = Day(4)

\* the sma field of period p, derived from the frame as stated
StatedSma(f, p) ==
    IF ColName("MA", p) \in Columns(f) /\ NonZeroPoints(f, ColName("MA", p)) # <<>>
    THEN List(NonZeroPoints(f, ColName("MA", p)))
    ELSE IF ColName("SMA", p) \in Columns(f)
         THEN List(NonZeroPoints(f, ColName("SMA", p)))
         ELSE None

ResponseKeys ==
    {"symbol", "candlestick", "volume", "sma5", "sma10", "sma20", "sma60",
     "macd", "kdj", "rsi", "boll"}

\* the MA columns of periods the response has no field for
UnexposedMaColumns(f) ==
    {c \in Columns(f) : \E p \in (1..60) \ ExposedPeriods : c = ColName("MA", p)}

\* C30: the response has moving-average fields for the periods 5, 10, 20
\* and 60 only: sma{p} is the series of MA{p} when that column has a
\* non-zero value, else the series of SMA{p} when that column is present,
\* else null; an MA column of another period is in no field.
C30_ExposedPeriods ==
    (rpc = "done" /\ response.status = 200) =>
        /\ DOMAIN response.body \subseteq ResponseKeys
        /\ \A p \in ExposedPeriods : SmaField(p) = StatedSma(ServedFrame, p)
        /\ \A c \in UnexposedMaColumns(ServedFrame) :
              /\ NonZeroPoints(ServedFrame, c) # <<>>
                    => \A p \in ExposedPeriods :
                           SmaField(p).list # NonZeroPoints(ServedFrame, c)

\* ma:2,5 on the whole stored series: MA2 and MA5 are computed, sma5 is MA5
C30_Witness ==
    /\ rpc = "done"
    /\ response.status = 200
    /\ query.indicators = "ma:2,5"
    /\ {"MA2", "MA5"} \subseteq Columns(ServedFrame)
    /\ NonZeroPoints(ServedFrame, "MA2") # <<>>
    /\ ~response.body.sma5.none
    /\ response.body.sma5.list = NonZeroPoints(ServedFrame, "MA5")
    /\ response.body.sma5.list # <<>>

====
